---- MODULE Spec2Model ----
(***************************************************************************)
(* Generation orchestration pipeline of the product-listing generator:     *)
(* App.handleGenerate (sequential variant), the Gemini service functions   *)
(* it calls, the withRetry combinator and the model-fallback variant of    *)
(* generateProductContent.                                                 *)
(*                                                                         *)
(* Conventions.  An error is represented by its message, and a message by  *)
(* the sequence of its words, so String.includes is a search for a         *)
(* contiguous run of words.  A nullable object is a sequence of length 0   *)
(* (null) or 1.  A JSON object is a function from property paths to the    *)
(* source text of the values.                                              *)
(***************************************************************************)
EXTENDS Integers, Sequences, FiniteSets, TLC

VARIABLES
    generationStep,    \* App state: useState<GenerationStep>
    productContent,    \* App state: ProductContent | null
    generatedImage,    \* App state: GeneratedProductImage
    generatedMockups,  \* App state: string[]
    error,             \* App state: string | null
    keysString,        \* localStorage item 'ai_api_keys'
    envApiKey,         \* process.env.API_KEY is set
    run,               \* the invocations of handleGenerate, by run identifier
    wr,                \* one call withRetry(fn) observed on its own
    fb,                \* one call of the fallback generateProductContent
    pr,                \* one invocation of the parallel handleGenerate (App.tsx 19-81)
    cr,                \* one invocation of the chained handleGenerate (part_000)
    ui,                \* the ProductInput component (part_002)
    calc               \* one application of a pure function to an input

vars == <<generationStep, productContent, generatedImage, generatedMockups, error,
          keysString, envApiKey, run, wr, fb, pr, cr, ui, calc>>

appVars == <<generationStep, productContent, generatedImage, generatedMockups, error>>
variantVars == <<pr, cr>>
inputVars == <<ui, calc>>

(***************************************************************************)
(* Values                                                                  *)
(***************************************************************************)
Null == <<>>
Some(x) == <<x>>
NullStr == "null"
NoError == <<>>

\* String.prototype.includes on word sequences
Includes(hay, needle) ==
    \E k \in 0..(Len(hay) - Len(needle)) :
        \A j \in 1..Len(needle) : hay[k + j] = needle[j]

LowerWord(w) ==
    CASE w = "Rate" -> "rate"
      [] w = "Permission" -> "permission"
      [] w = "API" -> "api"
      [] w = "Key" -> "key"
      [] w = "A" -> "a"
      [] w = "IA" -> "ia"
      [] w = "Failed" -> "failed"
      [] w = "Too" -> "too"
      [] w = "Many" -> "many"
      [] w = "Requests" -> "requests"
      [] w = "Please" -> "please"
      [] w = "Não" -> "não"
      [] w = "Tente" -> "tente"
      [] w = "O" -> "o"
      [] w = "SAFETY" -> "safety"
      [] OTHER -> w

\* String.prototype.toLowerCase
ToLowerCase(msg) == [j \in 1..Len(msg) |-> LowerWord(msg[j])]

(***************************************************************************)
(* Credential store: getApiKeyForService('gemini')                         *)
(***************************************************************************)
KeyStores == {"absent", "unparseable", "{}", "{gemini}"}

KeyMissingError ==
    <<"API", "Key", "para", "'gemini'", "não", "configurada", ".",
      "O", "administrador", "precisa", "configurar", "a", "chave", "no",
      "painel", "de", "admin", ".">>

getApiKeyForService ==
    IF keysString = "{gemini}" THEN [ok |-> TRUE, key |-> "stored", err |-> NoError]
    ELSE IF envApiKey THEN [ok |-> TRUE, key |-> "env", err |-> NoError]
    ELSE [ok |-> FALSE, key |-> "", err |-> KeyMissingError]

(***************************************************************************)
(* Errors raised by the service functions and by the remote API            *)
(***************************************************************************)
PolicyMarker == <<"política", "de", "segurança">>
BlockReasons == {"SAFETY"}

ContentBlockedError(reason) ==
    <<"A", "geração", "de", "conteúdo", "foi", "bloqueada", "pela",
      "política", "de", "segurança", ":", reason, ".">>
BaseImageBlockedError(reason) ==
    <<"A", "geração", "de", "imagem", "foi", "bloqueada", "pela",
      "política", "de", "segurança", ":", reason, ".",
      "Tente", "um", "prompt", "diferente", ".">>
ImageBlockedError(reason) ==
    <<"A", "imagem", "foi", "bloqueada", "pela",
      "política", "de", "segurança", ":", reason, ".",
      "Tente", "uma", "imagem", "diferente", ".">>

FormatError ==
    <<"A", "IA", "retornou", "uma", "resposta", "em", "formato", "inválido", ".",
      "Tente", "novamente", "com", "um", "prompt", "ou", "imagem", "diferente", ".">>
ContentGenericError ==
    <<"Não", "foi", "possível", "gerar", "os", "detalhes", "do", "produto", ".",
      "A", "API", "pode", "estar", "instável", "ou", "a", "entrada", "é",
      "inválida", ".", "Tente", "novamente", ".">>
BaseNoImageError ==
    <<"A", "IA", "não", "retornou", "uma", "imagem", "para", "o", "prompt",
      "fornecido", ".">>
BaseGenericError ==
    <<"Não", "foi", "possível", "gerar", "a", "imagem", "a", "partir", "do",
      "texto", ".", "A", "API", "pode", "estar", "instável", "ou", "a",
      "entrada", "é", "inválida", ".">>
ImageNoImageError ==
    <<"A", "IA", "não", "retornou", "uma", "imagem", ",", "embora", "a",
      "solicitação", "tenha", "sido", "bem-sucedida", ".">>
ImageGenericError ==
    <<"Não", "foi", "possível", "gerar", "a", "imagem", ".", "A", "API", "pode",
      "estar", "instável", "ou", "sobrecarregada", ".">>

\* Rejections of ai.models.generateContent (inputs of the model)
ErrRateLimitCode == <<"got", "status", ":", "429", "Too", "Many", "Requests">>
ErrRateLimitText == <<"Rate", "limit", "exceeded">>
ErrPermission == <<"Permission", "denied">>
ErrKeyInvalid == <<"API", "key", "not", "valid", ".", "Please", "pass", "a",
                   "valid", "API", "key", ".">>
ErrNetwork == <<"Failed", "to", "fetch">>
ApiFailures ==
    { [msg |-> ErrRateLimitCode, class |-> "ratelimit"],
      [msg |-> ErrRateLimitText, class |-> "ratelimit"],
      [msg |-> ErrPermission, class |-> "auth"],
      [msg |-> ErrKeyInvalid, class |-> "auth"],
      [msg |-> ErrNetwork, class |-> "network"] }
\* content.description.substring / content.category.toLowerCase on undefined
TypeErrorUndefined == <<"Cannot", "read", "properties", "of", "undefined">>

\* catch blocks of the service functions: only a policy error is passed on
ContentOuterCatchAllGeneric(msg) == ContentGenericError
ContentOuterCatch(msg) == IF Includes(msg, PolicyMarker) THEN msg ELSE ContentGenericError
BaseOuterCatch(msg) == IF Includes(msg, PolicyMarker) THEN msg ELSE BaseGenericError
ImageOuterCatch(msg) == IF Includes(msg, PolicyMarker) THEN msg ELSE ImageGenericError

(***************************************************************************)
(* handleGenerate's catch: the user-facing message                         *)
(***************************************************************************)
MsgGeneric == "A API parece estar sobrecarregada ou instável."
MsgNoKey == "A chave de API não foi configurada."
MsgPolicy == "Sua solicitação foi bloqueada por nossa política de segurança."
MsgRateLimit == "Muitas solicitações foram feitas em um curto período."
MsgFormat == "A IA retornou uma resposta em formato inesperado."
MsgBadKey == "Falha ao chamar a API Gemini: a chave de API é inválida ou não tem permissão."

IsRateLimitSignal(msg) ==
    Includes(msg, <<"429">>) \/ Includes(ToLowerCase(msg), <<"rate", "limit">>)
IsAuthSignal(msg) ==
    \/ Includes(ToLowerCase(msg), <<"permission", "denied">>)
    \/ Includes(ToLowerCase(msg), <<"api", "key", "not", "valid">>)

ErrorMessageFor(msg) ==
    IF Includes(msg, <<"API", "Key", "não", "configurada">>) THEN MsgNoKey
    ELSE IF Includes(msg, PolicyMarker) THEN MsgPolicy
    ELSE IF IsRateLimitSignal(msg) THEN MsgRateLimit
    ELSE IF Includes(msg, <<"formato", "inválido">>) THEN MsgFormat
    ELSE IF IsAuthSignal(msg) THEN MsgBadKey
    ELSE MsgGeneric

(***************************************************************************)
(* withRetry: the loop's conditions                                        *)
(***************************************************************************)
retries == 3
delay == 1000

\* the delay of the setTimeout after the failure of attempt i (0-based)
RetryDelayConstant(d, i) == d
RetryDelay(d, i) == d * (2 ^ i)
\* if (i < retries - 1): the failure of attempt i is followed by a wait
RetryWaits(n, i) == i < n - 1

(***************************************************************************)
(* The text of a content response and JSON.parse                           *)
(*                                                                         *)
(* A response text is the words before a serialised JSON object, the       *)
(* object (or none), and the words after it.  "FENCE" is the line of three *)
(* backquotes that delimits a fenced code block.                           *)
(***************************************************************************)
Whitespace == " "
JNull == "null"
Falsy == {"", JNull, "0", "false"}

FullObject ==
    ("name" :> "Tênis de Corrida") @@ ("description" :> "Leve e confortável") @@
    ("category" :> "Calçados") @@ ("price" :> "199.9") @@
    ("keywords" :> "[..]") @@ ("variations" :> "[..]") @@
    ("imageTextSuggestions" :> "[..]") @@ ("imageTextPlacementSuggestions" :> "1. Posição") @@
    ("hashtags" :> "[..]") @@
    ("coupon" :> "{..}") @@ ("coupon.code" :> "MEGA10") @@ ("coupon.phrase" :> "Use MEGA10") @@
    ("metaTitle" :> "Tênis") @@ ("metaDescription" :> "Compre") @@ ("slug" :> "tenis") @@
    ("imageAltText" :> "Tênis vermelho") @@ ("socialMediaPost" :> "Novo!") @@
    ("videoScript" :> "{..}") @@ ("videoScript.title" :> "Unboxing") @@
    ("videoScript.scenes" :> "[..]")

\* an object that carries only some of the schema's properties
SparseObject ==
    ("name" :> "Caneca") @@ ("price" :> "0") @@ ("metaTitle" :> "") @@ ("hashtags" :> JNull)

MkText(pre, obj, post) == [pre |-> pre, obj |-> obj, post |-> post]

TextBare == MkText(<<>>, Some(FullObject), <<>>)
TextPadded == MkText(<<Whitespace>>, Some(FullObject), <<Whitespace, Whitespace>>)
TextSparse == MkText(<<>>, Some(SparseObject), <<>>)
TextFenced == MkText(<<"FENCE", "json">>, Some(FullObject), <<"FENCE">>)
TextProse == MkText(<<"Desculpe", ",", "não", "consigo", "ajudar", ".">>, Null, <<>>)
TextEmpty == MkText(<<>>, Null, <<>>)

ResponseTexts == {TextBare, TextPadded, TextSparse, TextFenced, TextProse, TextEmpty}

RECURSIVE TrimStart(_)
TrimStart(ws) ==
    IF ws # <<>> /\ Head(ws) = Whitespace THEN TrimStart(Tail(ws)) ELSE ws

RECURSIVE TrimEnd(_)
TrimEnd(ws) ==
    IF ws # <<>> /\ ws[Len(ws)] = Whitespace THEN TrimEnd(SubSeq(ws, 1, Len(ws) - 1)) ELSE ws

\* String.prototype.trim
Trim(text) ==
    IF text.obj = Null
    THEN MkText(TrimEnd(TrimStart(text.pre \o text.post)), Null, <<>>)
    ELSE MkText(TrimStart(text.pre), text.obj, TrimEnd(text.post))

\* JSON.parse: the whole text must be one JSON value
JSONParse(text) ==
    IF text.obj # Null /\ text.pre = <<>> /\ text.post = <<>>
    THEN [ok |-> TRUE, value |-> text.obj[1]]
    ELSE [ok |-> FALSE, value |-> <<>>]

Truthy(obj, k) == k \in DOMAIN obj /\ obj[k] \notin Falsy

\* parsedJson.k = parsedJson.k || dflt
OrDefault(obj, k, dflt) ==
    IF Truthy(obj, k) THEN obj ELSE (k :> dflt) @@ obj

\* parsedJson.k = parsedJson.k || { ...members }
OrDefaultObject(obj, k, members) ==
    IF Truthy(obj, k) THEN obj
    ELSE (k :> "{..}") @@ members @@ obj

EnsureFields(obj) ==
    LET o1 == OrDefault(obj, "keywords", "[]")
        o2 == OrDefault(o1, "variations", "[]")
        o3 == OrDefault(o2, "imageTextSuggestions", "[]")
        o4 == OrDefault(o3, "imageTextPlacementSuggestions", "")
        o5 == OrDefault(o4, "hashtags", "[]")
        o6 == OrDefaultObject(o5, "coupon", ("coupon.code" :> "") @@ ("coupon.phrase" :> ""))
        o7 == OrDefault(o6, "metaTitle", "")
        o8 == OrDefault(o7, "metaDescription", "")
        o9 == OrDefault(o8, "slug", "")
        o10 == OrDefault(o9, "imageAltText", "")
        o11 == OrDefault(o10, "socialMediaPost", "")
    IN  OrDefaultObject(o11, "videoScript",
                        ("videoScript.title" :> "") @@ ("videoScript.scenes" :> "[]"))

(***************************************************************************)
(* Image responses and data URLs                                           *)
(***************************************************************************)
ImageMimes == {"image/png", "image/jpeg"}
ResponseMimes == {"image/png", "application/octet-stream"}
MockupData == <<"mockup-1", "mockup-2", "mockup-3", "mockup-4">>
NumMockupPrompts == Len(MockupData)

\* `data:${mimeType};base64,${data}`
DataUrl(mime, data) == <<"data:", mime, ";base64,", data>>

\* base64ToGenerativePart: /^data:(image\/.+);base64,(.+)$/
DataUrlMatches(url) ==
    /\ Len(url) = 4
    /\ url[1] = "data:"
    /\ url[2] \in ImageMimes
    /\ url[3] = ";base64,"
    /\ url[4] # ""

(***************************************************************************)
(* handleGenerate (App.tsx, sequential flow), one record per invocation    *)
(***************************************************************************)
Runs == {"r1", "r2"}

NoCalls == [base |-> 0, content |-> 0, image |-> 0, mockup |-> 0]

InitRun ==
    [ phase |-> "none",        \* the service call in progress
      at |-> "idle",           \* idle, request, backoff, pause, finished
      image |-> FALSE,         \* parameter image is a File
      title |-> FALSE,         \* parameter title is non-empty
      imagePrompt |-> FALSE,   \* parameter imagePrompt is non-empty
      imageToProcess |-> "null",
      content |-> Null,        \* const content
      newImage |-> Null,       \* const newImage
      mockups |-> <<>>,        \* generateProductMockups: generatedMockups
      k |-> 0,                 \* generateProductMockups: index of the prompt
      slots |-> <<>>,          \* history: how the iteration of each prompt ended
      dispatched |-> {},       \* history: the mockup requests issued (prompt, base image)
      i |-> 0,                 \* withRetry: i
      lastError |-> NoError,   \* withRetry: lastError
      steps |-> <<>>,          \* history: generationStep at submission, then each value set
      calls |-> NoCalls,       \* history: requests issued to the API, by call site
      seen |-> {},             \* history: outcomes of the attempts of the current withRetry
      caught |-> NoError ]     \* history: the error caught by handleGenerate

\* Commit with the setters guarded by the identifier of the latest run
CommitLatestOnly(r, rr, step, content, image, mockups, err) ==
    IF \E q \in Runs : q # r /\ run[q].at # "idle" /\ run[r].at # "idle"
                        /\ Len(run[q].steps) > 0 /\ run[q].steps[1] # "idle"
    THEN run' = [run EXCEPT ![r] = rr] /\ UNCHANGED appVars
    ELSE /\ generationStep' = step
         /\ productContent' = content
         /\ generatedImage' = image
         /\ generatedMockups' = mockups
         /\ error' = err
         /\ run' = [run EXCEPT ![r] = rr]

\* the assignment of the App state and of the run's record
Commit(r, rr, step, content, image, mockups, err) ==
    /\ generationStep' = step
    /\ productContent' = content
    /\ generatedImage' = image
    /\ generatedMockups' = mockups
    /\ error' = err
    /\ run' = [run EXCEPT ![r] = rr]

SetStep(rr, step) == [rr EXCEPT !.steps = Append(@, step)]

\* handleGenerate's catch block
Catch(r, rr, msg, content, image, mockups) ==
    Commit(r, [SetStep(rr, "error") EXCEPT !.at = "finished", !.caught = msg],
           "error", content, image, mockups, ErrorMessageFor(msg))

\* fn() of a withRetry call is invoked: one request to the API
IssueRequest(rr, phase) ==
    [rr EXCEPT !.phase = phase, !.at = "request",
               !.calls = [@ EXCEPT ![phase] = @ + 1]]

BeginRetry(rr, phase) ==
    IssueRequest([rr EXCEPT !.i = 0, !.lastError = NoError, !.seen = {}], phase)

OuterCatch(phase, msg) ==
    CASE phase = "base" -> BaseOuterCatch(msg)
      [] phase = "content" -> ContentOuterCatch(msg)
      [] phase = "image" -> ImageOuterCatch(msg)

\* setGenerationStep('content'); generateProductContent(imageToProcess, title)
StartContent(r, rr, content, image, mockups, err) ==
    LET r1 == SetStep(rr, "content")
        key == getApiKeyForService
    IN  IF key.ok
        THEN Commit(r, BeginRetry(r1, "content"), "content", content, image, mockups, err)
        ELSE Catch(r, r1, key.err, content, image, mockups)

\* handleGenerate up to its first suspension
SubmitRun(r, image, title, imagePrompt) ==
    /\ run[r].at = "idle"
    /\ LET r0 == [InitRun EXCEPT !.image = image, !.title = title,
                                 !.imagePrompt = imagePrompt,
                                 !.imageToProcess = IF image THEN "upload" ELSE "null",
                                 !.steps = <<generationStep>>]
           key == getApiKeyForService
       IN  IF ~image /\ imagePrompt
           THEN LET r1 == SetStep(r0, "base_image")
                IN  IF key.ok
                    THEN Commit(r, BeginRetry(r1, "base"), "base_image",
                                Null, Null, <<>>, NullStr)
                    ELSE Catch(r, r1, key.err, Null, Null, <<>>)
           ELSE StartContent(r, r0, Null, Null, <<>>, NullStr)
    /\ UNCHANGED <<keysString, envApiKey, wr, fb, variantVars>>

\* handleGenerate, called with ProductInput left as it is
Submit(r, image, title, imagePrompt) ==
    SubmitRun(r, image, title, imagePrompt) /\ UNCHANGED inputVars

\* an attempt of withRetry failed with msg (phases base, content, image)
AttemptFailed(r, msg, class) ==
    LET rr == [run[r] EXCEPT !.lastError = msg, !.seen = @ \cup {class}]
    IN  IF RetryWaits(retries, rr.i)
        THEN Commit(r, [rr EXCEPT !.at = "backoff"], generationStep, productContent,
                    generatedImage, generatedMockups, error)
        ELSE Catch(r, rr, OuterCatch(rr.phase, rr.lastError), productContent,
                   generatedImage, generatedMockups)

\* ThrowInside with a failed base image call swallowed: the content follows
ThrowInsideBaseGoesOn(r, rr, msg) ==
    IF rr.phase = "base"
    THEN StartContent(r, rr, productContent, generatedImage, generatedMockups, error)
    ELSE Catch(r, rr, OuterCatch(rr.phase, msg), productContent, generatedImage,
               generatedMockups)

\* ThrowInside with a failed primary image call swallowed: the mockups follow
ThrowInsideGoesOn(r, rr, msg) ==
    IF rr.phase = "image"
    THEN Commit(r, BeginRetry([rr EXCEPT !.k = 1], "mockup"), generationStep,
                productContent, generatedImage, generatedMockups, error)
    ELSE Catch(r, rr, OuterCatch(rr.phase, msg), productContent, generatedImage,
               generatedMockups)

\* the error msg is thrown after withRetry returned (phases base, content, image)
ThrowInside(r, rr, msg) ==
    Catch(r, rr, OuterCatch(rr.phase, msg), productContent, generatedImage,
          generatedMockups)

\* the setTimeout of withRetry fires: i++, next attempt
Backoff(r) ==
    /\ run[r].at = "backoff"
    /\ run' = [run EXCEPT ![r] = IssueRequest([@ EXCEPT !.i = @ + 1], @.phase)]
    /\ UNCHANGED <<appVars, keysString, envApiKey, wr, fb, variantVars, inputVars>>

Awaiting(r, phase) == run[r].phase = phase /\ run[r].at = "request"
\* a response to generateImageFromText's request
BaseImageResponse(r) ==
    /\ Awaiting(r, "base")
    /\ \/ \E e \in ApiFailures : AttemptFailed(r, e.msg, e.class)
       \/ \E b \in BlockReasons : AttemptFailed(r, BaseImageBlockedError(b), "blocked")
       \/ \* the response holds no inline image
          ThrowInside(r, [run[r] EXCEPT !.seen = @ \cup {"noimage"}], BaseNoImageError)
       \/ \* the data URL is returned; dataUrlToFile; the content stage starts
          StartContent(r, [run[r] EXCEPT !.seen = @ \cup {"ok"},
                                         !.imageToProcess = "generated"],
                       productContent, generatedImage, generatedMockups, error)
    /\ UNCHANGED <<keysString, envApiKey, wr, fb, variantVars, inputVars>>

\* AfterContent without setGenerationStep('images')
AfterContentNoImagesStep(r, rr, content) ==
    LET r1 == [rr EXCEPT !.content = Some(content)]
        key == getApiKeyForService
    IN  IF r1.imageToProcess # "null"
        THEN IF key.ok
             THEN Commit(r, BeginRetry(r1, "image"), generationStep, Some(content),
                         generatedImage, generatedMockups, error)
             ELSE Catch(r, r1, key.err, Some(content), generatedImage, generatedMockups)
        ELSE Commit(r, [SetStep(r1, "done") EXCEPT !.at = "finished"], "done",
                    Some(content), generatedImage, generatedMockups, error)

\* AfterContent taking the image branch whether or not there is an image
AfterContentAlwaysImages(r, rr, content) ==
    LET r1 == SetStep([rr EXCEPT !.content = Some(content)], "images")
    IN  Commit(r, BeginRetry(r1, "image"), "images", Some(content),
               generatedImage, generatedMockups, error)

\* AfterContent issuing the primary image request without setProductContent
AfterContentImageFirst(r, rr, content) ==
    LET r1 == [rr EXCEPT !.content = Some(content)]
    IN  IF r1.imageToProcess # "null"
        THEN Commit(r, BeginRetry(SetStep(r1, "images"), "image"), "images",
                    productContent, generatedImage, generatedMockups, error)
        ELSE Commit(r, [SetStep(r1, "done") EXCEPT !.at = "finished"], "done",
                    Some(content), generatedImage, generatedMockups, error)

\* setProductContent(content) and what follows it in handleGenerate
AfterContent(r, rr, content) ==
    LET r1 == [rr EXCEPT !.content = Some(content)]
        key == getApiKeyForService
    IN  IF r1.imageToProcess # "null"
        THEN LET r2 == SetStep(r1, "images")
             IN  IF key.ok
                 THEN Commit(r, BeginRetry(r2, "image"), "images", Some(content),
                             generatedImage, generatedMockups, error)
                 ELSE Catch(r, r2, key.err, Some(content), generatedImage,
                            generatedMockups)
        ELSE Commit(r, [SetStep(r1, "done") EXCEPT !.at = "finished"], "done",
                    Some(content), generatedImage, generatedMockups, error)

\* a response to generateProductContent's request
ContentResponse(r) ==
    /\ Awaiting(r, "content")
    /\ \/ \E e \in ApiFailures : AttemptFailed(r, e.msg, e.class)
       \/ \E b \in BlockReasons : AttemptFailed(r, ContentBlockedError(b), "blocked")
       \/ \E t \in ResponseTexts :
            LET parsed == JSONParse(Trim(t))
                rr == [run[r] EXCEPT !.seen = @ \cup {IF parsed.ok THEN "ok" ELSE "unparsed"}]
            IN  IF parsed.ok
                THEN AfterContent(r, rr, EnsureFields(parsed.value))
                ELSE ThrowInside(r, rr, FormatError)
    /\ UNCHANGED <<keysString, envApiKey, wr, fb, variantVars, inputVars>>

\* MockupSettled leaving the loop when the prompt gave no image
MockupSettledStops(rr, outcome, url) ==
    [rr EXCEPT !.at = "pause",
               !.k = IF url = Null THEN NumMockupPrompts ELSE @,
               !.slots = Append(@, outcome),
               !.mockups = IF url # Null THEN Append(@, url) ELSE @]

\* the iteration of a prompt ends (outcome image, none or threw):
\* if (resultUrl) generatedMockups.push(resultUrl), then the pause
MockupSettled(rr, outcome, url) ==
    [rr EXCEPT !.at = "pause",
               !.slots = Append(@, outcome),
               !.mockups = IF url # Null THEN Append(@, url) ELSE @]

\* MockupSlotStart issuing the requests of all the prompts at once
MockupSlotStartAll(rr, k) ==
    IF DataUrlMatches(rr.newImage)
    THEN BeginRetry([rr EXCEPT !.k = k,
                               !.dispatched = @ \cup {[prompt |-> q, base |-> rr.newImage] :
                                                         q \in 1..NumMockupPrompts}],
                    "mockup")
    ELSE MockupSettled([rr EXCEPT !.k = k, !.phase = "mockup"], "threw", Null)

\* MockupSlotStart handing the uploaded file's image to the request
MockupSlotStartUpload(rr, k) ==
    BeginRetry([rr EXCEPT !.k = k,
                          !.dispatched = @ \cup {[prompt |-> k,
                                                  base |-> DataUrl("image/png", "upload")]}],
               "mockup")

\* iteration k of the loop over mockupPrompts begins: base64ToGenerativePart,
\* then the first request of the prompt
MockupSlotStart(rr, k) ==
    IF DataUrlMatches(rr.newImage)
    THEN BeginRetry([rr EXCEPT !.k = k,
                               !.dispatched = @ \cup {[prompt |-> k, base |-> rr.newImage]}],
                    "mockup")
    ELSE MockupSettled([rr EXCEPT !.k = k, !.phase = "mockup"], "threw", Null)

HasString(obj, k) == k \in DOMAIN obj /\ obj[k] # JNull

\* setGeneratedImage(newImage) and what follows it in handleGenerate
AfterImage(r, rr, url) ==
    LET r1 == [rr EXCEPT !.newImage = url, !.mockups = <<>>]
        key == getApiKeyForService
        c == rr.content[1]
    IN  IF url = Null
        THEN Commit(r, [SetStep(r1, "done") EXCEPT !.at = "finished"], "done",
                    productContent, url, generatedMockups, error)
        ELSE IF ~key.ok
        THEN Catch(r, r1, key.err, productContent, url, generatedMockups)
        ELSE IF ~HasString(c, "description") \/ ~HasString(c, "category")
        THEN Catch(r, r1, TypeErrorUndefined, productContent, url, generatedMockups)
        ELSE Commit(r, MockupSlotStart(r1, 1), generationStep, productContent, url,
                    generatedMockups, error)

\* a response to generateProductImages's request
ImageResponse(r) ==
    /\ Awaiting(r, "image")
    /\ \/ \E e \in ApiFailures : AttemptFailed(r, e.msg, e.class)
       \/ \E b \in BlockReasons : AttemptFailed(r, ImageBlockedError(b), "blocked")
       \/ ThrowInside(r, [run[r] EXCEPT !.seen = @ \cup {"noimage"}], ImageNoImageError)
       \/ \E mime \in ResponseMimes :
            AfterImage(r, [run[r] EXCEPT !.seen = @ \cup {"ok"}], DataUrl(mime, "primary"))
    /\ UNCHANGED <<keysString, envApiKey, wr, fb, variantVars, inputVars>>

\* rejections of a mockup request (they are logged and otherwise unused)
MockupErrors == {e \in ApiFailures : e.msg = ErrRateLimitCode}

\* MockupCatch letting the error of the prompt escape to handleGenerate
MockupCatchRethrows(r, rr) ==
    Catch(r, rr, rr.lastError, productContent, generatedImage, generatedMockups)

\* the catch block of the loop body: the error is logged, the loop goes on
MockupCatch(r, rr) ==
    /\ run' = [run EXCEPT ![r] = MockupSettled(rr, "threw", Null)]
    /\ UNCHANGED appVars

\* a response to one of generateProductMockups's requests
MockupResponse(r) ==
    /\ Awaiting(r, "mockup")
    /\ \/ \E e \in MockupErrors :
            LET rr == [run[r] EXCEPT !.lastError = e.msg]
            IN  IF RetryWaits(retries, rr.i)
                THEN run' = [run EXCEPT ![r] = [rr EXCEPT !.at = "backoff"]]
                     /\ UNCHANGED appVars
                ELSE MockupCatch(r, rr)
       \/ \* blocked, or no inline image: resultUrl is null
          /\ run' = [run EXCEPT ![r] = MockupSettled(@, "none", Null)]
          /\ UNCHANGED appVars
       \/ /\ run' = [run EXCEPT ![r] =
                       MockupSettled(@, "image", DataUrl("image/png", MockupData[run[r].k]))]
          /\ UNCHANGED appVars
    /\ UNCHANGED <<keysString, envApiKey, wr, fb, variantVars, inputVars>>

\* MockupPause with a loop that does not leave its last iteration
MockupPauseNoReturn(r) ==
    /\ run[r].phase = "mockup" /\ run[r].at = "pause"
    /\ run[r].k < NumMockupPrompts
    /\ Commit(r, MockupSlotStart(run[r], run[r].k + 1), generationStep,
              productContent, generatedImage, generatedMockups, error)
    /\ UNCHANGED <<keysString, envApiKey, wr, fb, variantVars, inputVars>>

\* the 250 ms pause that ends an iteration is over
MockupPause(r) ==
    /\ run[r].phase = "mockup" /\ run[r].at = "pause"
    /\ IF run[r].k < NumMockupPrompts
       THEN Commit(r, MockupSlotStart(run[r], run[r].k + 1), generationStep,
                   productContent, generatedImage, generatedMockups, error)
       ELSE Commit(r, [SetStep(run[r], "done") EXCEPT !.at = "finished"], "done",
                   productContent, generatedImage, run[r].mockups, error)
    /\ UNCHANGED <<keysString, envApiKey, wr, fb, variantVars, inputVars>>

(***************************************************************************)
(* withRetry(fn) with its default arguments, observed on a clock           *)
(***************************************************************************)
TickMs == 1000
MaxClock == 6000

WrValues == {"value-1", "value-2"}
WrErrors == {ErrNetwork, ErrRateLimitCode, ErrPermission}

InitWr ==
    [ at |-> "idle",          \* idle, awaiting, sleeping, returned, thrown
      i |-> 0,                \* the loop variable
      lastError |-> NoError,
      due |-> 0,              \* the time the pending setTimeout fires at
      result |-> "",          \* the value returned
      thrown |-> NoError,     \* the error thrown
      now |-> 0,              \* the clock, in ms
      outcomes |-> <<>>,      \* history: how each invocation of fn settled
      calledAt |-> 0,         \* history: the time of the latest invocation of fn
      failedAt |-> 0,         \* history: the time of the latest failure
      delays |-> <<>>,        \* history: the delay of each setTimeout
      settledAt |-> 0 ]       \* history: the time of the return or throw

\* lastError = error as Error
WrLastErrorKeepFirst(prev, e) == IF prev = NoError THEN e ELSE prev
WrLastError(prev, e) == e

\* the first invocation of fn
WrStart ==
    /\ wr.at = "idle"
    /\ wr' = [wr EXCEPT !.at = IF 0 < retries THEN "awaiting" ELSE "thrown",
                        !.calledAt = wr.now]
    /\ UNCHANGED <<appVars, keysString, envApiKey, run, fb, variantVars, inputVars>>

\* fn() fulfils: return await fn()
WrResolve ==
    /\ wr.at = "awaiting"
    /\ \E v \in WrValues :
         wr' = [wr EXCEPT !.at = "returned", !.result = v, !.settledAt = wr.now,
                          !.outcomes = Append(@, [ok |-> TRUE, value |-> v, err |-> NoError])]
    /\ UNCHANGED <<appVars, keysString, envApiKey, run, fb, variantVars, inputVars>>

\* fn() rejects: the catch block, and the end of the loop after the last attempt
WrReject ==
    /\ wr.at = "awaiting"
    /\ \E e \in WrErrors :
         LET w == [wr EXCEPT !.lastError = WrLastError(@, e),
                             !.failedAt = wr.now,
                             !.outcomes = Append(@, [ok |-> FALSE, value |-> "", err |-> e])]
         IN  IF RetryWaits(retries, w.i)
             THEN wr' = [w EXCEPT !.at = "sleeping",
                                  !.due = w.now + RetryDelay(delay, w.i),
                                  !.delays = Append(@, RetryDelay(delay, w.i))]
             ELSE IF w.i + 1 < retries
             THEN wr' = [w EXCEPT !.i = @ + 1, !.calledAt = w.now]
             ELSE wr' = [w EXCEPT !.i = @ + 1, !.at = "thrown", !.thrown = w.lastError,
                                  !.settledAt = w.now]
    /\ UNCHANGED <<appVars, keysString, envApiKey, run, fb, variantVars, inputVars>>

\* the setTimeout fires: i++, and the next invocation of fn
WrTimer ==
    /\ wr.at = "sleeping"
    /\ wr.now >= wr.due
    /\ wr' = IF wr.i + 1 < retries
             THEN [wr EXCEPT !.i = @ + 1, !.at = "awaiting", !.calledAt = wr.now]
             ELSE [wr EXCEPT !.i = @ + 1, !.at = "thrown", !.thrown = wr.lastError,
                             !.settledAt = wr.now]
    /\ UNCHANGED <<appVars, keysString, envApiKey, run, fb, variantVars, inputVars>>

\* time passes
WrTick ==
    /\ wr.at \in {"idle", "awaiting", "sleeping"}
    /\ wr.now + TickMs <= MaxClock
    /\ wr' = [wr EXCEPT !.now = @ + TickMs]
    /\ UNCHANGED <<appVars, keysString, envApiKey, run, fb, variantVars, inputVars>>

(***************************************************************************)
(* generateProductContent with model fallback (no retry, no defaults)      *)
(***************************************************************************)
modelsToTry == <<"gemini-2.5-pro", "gemini-2.5-flash">>

\* JSON.parse's SyntaxError
JsonSyntaxError == <<"Unexpected", "token", "in", "JSON">>

AllModelsFailedErrorNoCause(n, last) ==
    <<"A", "geração", "de", "conteúdo", "falhou", ".", "Por", "favor", ",", "tente",
      "novamente", ".">>
AllModelsFailedError(n, last) ==
    <<"A", "geração", "de", "conteúdo", "falhou", "após", "tentar", ToString(n),
      "modelos", ".", "Por", "favor", ",", "tente", "novamente", ".", "(", "Erro", ":">>
    \o last \o <<")">>

InitFb ==
    [ at |-> "idle",          \* idle, awaiting, returned, thrown
      image |-> FALSE, title |-> FALSE, url |-> FALSE,   \* the arguments given
      m |-> 0,                \* index in modelsToTry of the model being called
      lastError |-> NoError,
      result |-> Null,        \* the ProductContent returned
      thrown |-> NoError,     \* the error thrown
      called |-> <<>>,        \* history: the models called, in order
      outcomes |-> <<>> ]     \* history: how each call ended (ok, value, err)

\* the call with the first model of the list
FbStart(image, title, url) ==
    /\ fb.at = "idle"
    /\ fb' = IF Len(modelsToTry) > 0
             THEN [fb EXCEPT !.at = "awaiting", !.image = image, !.title = title,
                             !.url = url, !.m = 1, !.called = <<modelsToTry[1]>>]
             ELSE [fb EXCEPT !.at = "thrown", !.image = image, !.title = title, !.url = url,
                             !.thrown = AllModelsFailedError(0, <<"undefined">>)]
    /\ UNCHANGED <<appVars, keysString, envApiKey, run, wr, variantVars, inputVars>>

\* the catch block of the loop, then the next model or the final throw
FbFailedNoFallback(w, msg) ==
    [w EXCEPT !.lastError = msg, !.at = "thrown",
              !.thrown = AllModelsFailedError(Len(modelsToTry), msg)]
FbFailed(w, msg) ==
    IF w.m < Len(modelsToTry)
    THEN [w EXCEPT !.lastError = msg, !.m = @ + 1,
                   !.called = Append(@, modelsToTry[w.m + 1])]
    ELSE [w EXCEPT !.lastError = msg, !.at = "thrown",
                   !.thrown = AllModelsFailedError(Len(modelsToTry), msg)]

\* the call of model m settles
FbResponse ==
    /\ fb.at = "awaiting"
    /\ \/ \E e \in ApiFailures :
            fb' = FbFailed([fb EXCEPT !.outcomes =
                                Append(@, [ok |-> FALSE, value |-> Null, err |-> e.msg])],
                           e.msg)
       \/ \E t \in ResponseTexts :
            LET parsed == JSONParse(Trim(t))
            IN  IF parsed.ok
                THEN fb' = [fb EXCEPT !.at = "returned", !.result = Some(parsed.value),
                                      !.outcomes = Append(@, [ok |-> TRUE,
                                                              value |-> Some(parsed.value),
                                                              err |-> NoError])]
                ELSE fb' = FbFailed([fb EXCEPT !.outcomes =
                                        Append(@, [ok |-> FALSE, value |-> Null,
                                                   err |-> JsonSyntaxError])],
                                    JsonSyntaxError)
    /\ UNCHANGED <<appVars, keysString, envApiKey, run, wr, variantVars, inputVars>>

(***************************************************************************)
(* A call of a service function seen as a promise (parallel handleGenerate)*)
(***************************************************************************)
InitCall ==
    [ at |-> "idle",          \* idle, request, backoff, fulfilled, rejected
      i |-> 0,                \* withRetry: i
      lastError |-> NoError,  \* withRetry: lastError
      value |-> Null,         \* the value the promise is fulfilled with
      err |-> NoError,        \* the error the promise is rejected with
      sent |-> 0 ]            \* history: requests issued to the API

CallRejected(c, msg) ==
    [c EXCEPT !.at = "rejected", !.err = msg, !.i = 0, !.lastError = NoError]
CallFulfilled(c, v) ==
    [c EXCEPT !.at = "fulfilled", !.value = Some(v), !.i = 0, !.lastError = NoError]

\* new GoogleGenAI({ apiKey: getApiKeyForService('gemini') }), then the first request
CallBegin(key) ==
    IF key.ok THEN [InitCall EXCEPT !.at = "request", !.sent = 1]
    ELSE CallRejected(InitCall, key.err)

\* withRetry's catch block, and the catch block of the service function
CallAttemptFailed(c, phase, msg) ==
    IF RetryWaits(retries, c.i)
    THEN [c EXCEPT !.at = "backoff", !.lastError = msg]
    ELSE CallRejected(c, OuterCatch(phase, msg))

\* the setTimeout of withRetry fires
CallRetry(c) == [c EXCEPT !.at = "request", !.i = @ + 1, !.sent = @ + 1]

\* a content with a coupon code and an empty coupon phrase
TextCouponCodeOnly == MkText(<<>>, Some([FullObject EXCEPT !["coupon.phrase"] = ""]), <<>>)

\* how a request of generateProductContent can end
ContentCallOutcomes(c) ==
    {CallAttemptFailed(c, "content", e.msg) : e \in ApiFailures}
    \cup {CallAttemptFailed(c, "content", ContentBlockedError(b)) : b \in BlockReasons}
    \cup {LET parsed == JSONParse(Trim(t))
          IN  IF parsed.ok THEN CallFulfilled(c, EnsureFields(parsed.value))
              ELSE CallRejected(c, OuterCatch("content", FormatError)) :
            t \in ResponseTexts \cup {TextCouponCodeOnly}}

\* how a request of generateProductImages can end
ImageCallOutcomes(c) ==
    {CallAttemptFailed(c, "image", e.msg) : e \in ApiFailures}
    \cup {CallAttemptFailed(c, "image", ImageBlockedError(b)) : b \in BlockReasons}
    \cup {CallRejected(c, OuterCatch("image", ImageNoImageError))}
    \cup {CallFulfilled(c, DataUrl(mime, "primary")) : mime \in ResponseMimes}

\* err.message as the parallel handleGenerate stores it in error
MessageText(msg) ==
    CASE msg = ContentGenericError -> "Não foi possível gerar os detalhes do produto."
      [] msg = ImageGenericError -> "Não foi possível gerar a imagem."
      [] msg = KeyMissingError -> "API Key para 'gemini' não configurada."
      [] msg = TypeErrorUndefined -> "Cannot read properties of undefined"
      [] msg \in {ContentBlockedError(b) : b \in BlockReasons} ->
            "A geração de conteúdo foi bloqueada pela política de segurança."
      [] msg \in {ImageBlockedError(b) : b \in BlockReasons} ->
            "A imagem foi bloqueada pela política de segurança."
      [] OTHER -> "An unknown error occurred."

(***************************************************************************)
(* The idle records of the other components                                *)
(***************************************************************************)
InitPar ==
    [ at |-> "idle",          \* idle, joining, text, secondary, finished
      image |-> FALSE,        \* parameter image is a File
      title |-> FALSE,        \* parameter title is non-empty
      c |-> InitCall,         \* generateProductContent(image, title)
      p |-> InitCall,         \* generateProductImages(image)
      m |-> InitRun,          \* generateProductMockups(newImage, content)
      b |-> "none",           \* the coupon banner task: none, request, image, empty
      steps |-> <<>>,         \* history: generationStep at submission, then each value set
      caught |-> NoError ]    \* history: the error caught by handleGenerate
InitChained ==
    [ at |-> "idle",           \* idle, content, images, finished
      image |-> FALSE,         \* parameter image is a File
      title |-> FALSE,         \* parameter title is non-empty
      generatedImages |-> 0,   \* length of the state generatedImages
      imageCalls |-> 0,        \* history: calls of generateProductImages
      steps |-> <<>>,
      caught |-> NoError ]
InitInput ==
    [ at |-> "idle",           \* handleUrlLoad: idle, fetching, resizing
      imageUrl |-> <<>>,       \* state imageUrl
      isUrlLoading |-> FALSE,  \* state isUrlLoading
      imageFile |-> Null,      \* state imageFile
      loads |-> 0,             \* history: calls of handleUrlLoad
      cause |-> "none",        \* history: what the server did in the current call
      alerts |-> {},           \* history: the alerts shown, each with its cause
      generated |-> 0,         \* history: calls of onGenerate
      file |-> Null,           \* handleUrlLoad's imageFileFromUrl
      before |-> [imageFile |-> Null, generated |-> 0],
                               \* history: imageFile and generated at the last call
      mode |-> "upload",       \* state mode
      pending |-> {} ]         \* the calls of processImageFile awaiting resizeImage
InitCalc == [fn |-> "none"]

(***************************************************************************)
(* handleGenerate, parallel flow (App.tsx 19-81): content and primary      *)
(* image are requested together, then the secondary image tasks.  The      *)
(* source holds the mockup task only; the coupon banner task its comments  *)
(* and ProductOutput refer to is modelled from the specification.          *)
(***************************************************************************)
ParCommit(p2, step, content, image, mockups, err) ==
    /\ generationStep' = step
    /\ productContent' = content
    /\ generatedImage' = image
    /\ generatedMockups' = mockups
    /\ error' = err
    /\ pr' = p2

ParStep(p2, step) == [p2 EXCEPT !.steps = Append(@, step)]

\* the catch block: setError(err.message); setGenerationStep('error')
ParCatch(p2, msg, content, image, mockups) ==
    ParCommit([ParStep(p2, "error") EXCEPT !.at = "finished", !.caught = msg],
              "error", content, image, mockups, MessageText(msg))

\* BannerWanted asking for the code only
BannerWantedCodeOnly(content) == Truthy(content, "coupon.code")

\* the banner is requested for content with a coupon code and a coupon phrase
BannerWanted(content) ==
    Truthy(content, "coupon.code") /\ Truthy(content, "coupon.phrase")

\* what follows the await of Promise.all([content, primary image])
ParAfterJoin(p2) ==
    LET content == p2.c.value[1]
        newImage == p2.p.value[1]
        p3 == ParStep(p2, "images")
        p4 == [p3 EXCEPT !.b = IF BannerWanted(content) THEN "request" ELSE "none"]
    IN  IF newImage = Null
        THEN ParCommit([ParStep(p3, "done") EXCEPT !.at = "finished"], "done",
                       Some(content), newImage, generatedMockups, error)
        ELSE IF ~getApiKeyForService.ok
        THEN ParCatch(p3, KeyMissingError, Some(content), newImage, generatedMockups)
        ELSE IF ~HasString(content, "description") \/ ~HasString(content, "category")
        THEN ParCatch(p4, TypeErrorUndefined, Some(content), newImage, generatedMockups)
        ELSE ParCommit([p4 EXCEPT !.at = "secondary",
                                  !.m = MockupSlotStart([InitRun EXCEPT !.content = Some(content),
                                                                        !.newImage = newImage], 1)],
                       "images", Some(content), newImage, generatedMockups, error)

\* ParJoin showing the images step as soon as the primary image arrived
ParJoinImageFirst(p2, c2) ==
    IF p2.at = "joining" /\ p2.p.at = "fulfilled"
    THEN ParCommit([ParStep(p2, "images") EXCEPT !.at = "finished"], "images",
                   productContent, p2.p.value[1], generatedMockups, error)
    ELSE IF c2.at = "rejected"
    THEN ParCatch(p2, c2.err, productContent, generatedImage, generatedMockups)
    ELSE pr' = p2 /\ UNCHANGED appVars

\* ParJoin waiting for both calls to settle and keeping what was fulfilled
ParJoinAllSettled(p2, c2) ==
    IF p2.at = "joining" /\ p2.c.at = "fulfilled" /\ p2.p.at = "rejected"
    THEN ParCatch(p2, p2.p.err, p2.c.value, generatedImage, generatedMockups)
    ELSE IF p2.at = "joining" /\ p2.c.at = "rejected" /\ p2.p.at = "fulfilled"
    THEN ParCatch(p2, p2.c.err, productContent, p2.p.value[1], generatedMockups)
    ELSE IF p2.at = "joining" /\ p2.c.at = "rejected" /\ p2.p.at = "rejected"
    THEN ParCatch(p2, p2.c.err, productContent, generatedImage, generatedMockups)
    ELSE IF p2.at = "text" /\ c2.at = "rejected"
    THEN ParCatch(p2, c2.err, productContent, generatedImage, generatedMockups)
    ELSE IF p2.at = "joining" /\ p2.c.at = "fulfilled" /\ p2.p.at = "fulfilled"
    THEN ParAfterJoin(p2)
    ELSE IF p2.at = "text" /\ c2.at = "fulfilled"
    THEN ParCommit([ParStep(p2, "done") EXCEPT !.at = "finished"], "done", c2.value,
                   generatedImage, generatedMockups, error)
    ELSE pr' = p2 /\ UNCHANGED appVars

\* the call c2 of the run p2 made a step: the awaits of handleGenerate
ParJoin(p2, c2) ==
    IF p2.at \in {"joining", "text"} /\ c2.at = "rejected"
    THEN ParCatch(p2, c2.err, productContent, generatedImage, generatedMockups)
    ELSE IF p2.at = "joining" /\ p2.c.at = "fulfilled" /\ p2.p.at = "fulfilled"
    THEN ParAfterJoin(p2)
    ELSE IF p2.at = "text" /\ c2.at = "fulfilled"
    THEN ParCommit([ParStep(p2, "done") EXCEPT !.at = "finished"], "done", c2.value,
                   generatedImage, generatedMockups, error)
    ELSE pr' = p2 /\ UNCHANGED appVars

\* handleGenerate (parallel flow) up to its first suspension
ParSubmit(image, title) ==
    /\ pr.at = "idle"
    /\ LET key == getApiKeyForService
           p0 == ParStep([InitPar EXCEPT !.image = image, !.title = title,
                                         !.steps = <<generationStep>>], "content")
           p1 == IF image
                 THEN [p0 EXCEPT !.at = "joining", !.c = CallBegin(key), !.p = CallBegin(key)]
                 ELSE [p0 EXCEPT !.at = "text", !.c = CallBegin(key)]
       IN  IF p1.c.at = "rejected"
           THEN ParCatch(p1, p1.c.err, Null, Null, <<>>)
           ELSE ParCommit(p1, "content", Null, Null, <<>>, NullStr)
    /\ UNCHANGED <<keysString, envApiKey, run, wr, fb, cr, inputVars>>

ParContentResponse ==
    /\ pr.c.at = "request"
    /\ \E c2 \in ContentCallOutcomes(pr.c) : ParJoin([pr EXCEPT !.c = c2], c2)
    /\ UNCHANGED <<keysString, envApiKey, run, wr, fb, cr, inputVars>>

ParImageResponse ==
    /\ pr.p.at = "request"
    /\ \E c2 \in ImageCallOutcomes(pr.p) : ParJoin([pr EXCEPT !.p = c2], c2)
    /\ UNCHANGED <<keysString, envApiKey, run, wr, fb, cr, inputVars>>

\* a setTimeout of withRetry fires in one of the two calls
ParBackoff ==
    /\ \/ pr.c.at = "backoff" /\ pr' = [pr EXCEPT !.c = CallRetry(@)]
       \/ pr.p.at = "backoff" /\ pr' = [pr EXCEPT !.p = CallRetry(@)]
    /\ UNCHANGED <<appVars, keysString, envApiKey, run, wr, fb, cr, inputVars>>

\* every secondary image task has settled
ParTasksDone(p2) == p2.m.at = "finished" /\ p2.b # "request"

\* a secondary task settled: await Promise.all(secondaryImageTasks), then done
ParSecondary(p2, mockups) ==
    IF p2.at = "secondary" /\ ParTasksDone(p2)
    THEN ParCommit([ParStep(p2, "done") EXCEPT !.at = "finished"], "done",
                   productContent, generatedImage, mockups, error)
    ELSE ParCommit(p2, generationStep, productContent, generatedImage, mockups, error)

\* a response to one of generateProductMockups's requests
ParMockupResponse ==
    /\ pr.at = "secondary" /\ pr.m.phase = "mockup" /\ pr.m.at = "request"
    /\ \/ \E e \in MockupErrors :
            LET rr == [pr.m EXCEPT !.lastError = e.msg]
            IN  pr' = [pr EXCEPT !.m = IF RetryWaits(retries, rr.i)
                                       THEN [rr EXCEPT !.at = "backoff"]
                                       ELSE MockupSettled(rr, "threw", Null)]
       \/ pr' = [pr EXCEPT !.m = MockupSettled(@, "none", Null)]
       \/ pr' = [pr EXCEPT !.m = MockupSettled(@, "image",
                                               DataUrl("image/png", MockupData[pr.m.k]))]
    /\ UNCHANGED <<appVars, keysString, envApiKey, run, wr, fb, cr, inputVars>>

ParMockupBackoff ==
    /\ pr.at = "secondary" /\ pr.m.phase = "mockup" /\ pr.m.at = "backoff"
    /\ pr' = [pr EXCEPT !.m = IssueRequest([@ EXCEPT !.i = @ + 1], "mockup")]
    /\ UNCHANGED <<appVars, keysString, envApiKey, run, wr, fb, cr, inputVars>>

\* the pause that ends an iteration is over; after the last one
\* generateProductMockups returns and .then(setGeneratedMockups) runs
ParMockupPause ==
    /\ pr.at = "secondary" /\ pr.m.phase = "mockup" /\ pr.m.at = "pause"
    /\ IF pr.m.k < NumMockupPrompts
       THEN pr' = [pr EXCEPT !.m = MockupSlotStart(@, @.k + 1)] /\ UNCHANGED appVars
       ELSE ParSecondary([pr EXCEPT !.m.at = "finished"], pr.m.mockups)
    /\ UNCHANGED <<keysString, envApiKey, run, wr, fb, cr, inputVars>>

\* the banner request settles: an image, or a failure the task absorbs
ParBannerResponse ==
    /\ pr.at = "secondary" /\ pr.b = "request"
    /\ \E o \in {"image", "empty"} : ParSecondary([pr EXCEPT !.b = o], generatedMockups)
    /\ UNCHANGED <<keysString, envApiKey, run, wr, fb, cr, inputVars>>

(***************************************************************************)
(* handleGenerate, chained flow (part_000 17-54) over the single-request   *)
(* service (part_009 55-170): content, then always the image set.          *)
(***************************************************************************)
ChContentError == <<"Failed", "to", "generate", "content", "from", "AI">>
ChImagesError == <<"Falha", "ao", "gerar", "imagens", "da", "IA">>
NumberOfImages == 5

ChCommit(c2, step, content, err) ==
    /\ generationStep' = step
    /\ productContent' = content
    /\ error' = err
    /\ cr' = c2
    /\ UNCHANGED <<generatedImage, generatedMockups>>

ChStep(c2, step) == [c2 EXCEPT !.steps = Append(@, step)]

\* handleGenerateImages(content): content is the parsed object, never null
ChHandleGenerateImages(c2, content) ==
    ChCommit([ChStep(c2, "images") EXCEPT !.at = "images", !.imageCalls = @ + 1],
             "images", Some(content), error)

\* handleGenerate(image, title)
ChSubmit(image, title) ==
    /\ cr.at = "idle"
    /\ ChCommit([ChStep([InitChained EXCEPT !.image = image, !.title = title,
                                           !.steps = <<generationStep>>], "content")
                   EXCEPT !.at = "content"],
                "content", Null, NullStr)
    /\ UNCHANGED <<keysString, envApiKey, run, wr, fb, pr, inputVars>>

\* generateProductContent settles: JSON.parse(response.text.trim()), or the catch
ChContentResponse ==
    /\ cr.at = "content"
    /\ \/ \E t \in ResponseTexts :
            LET parsed == JSONParse(Trim(t))
            IN  IF parsed.ok
                THEN ChHandleGenerateImages(cr, parsed.value)
                ELSE ChCommit([ChStep(cr, "error") EXCEPT !.at = "finished",
                                                          !.caught = ChContentError],
                              "error", productContent, "Failed to generate content from AI. Please check your prompt and API key.")
       \/ ChCommit([ChStep(cr, "error") EXCEPT !.at = "finished", !.caught = ChContentError],
                   "error", productContent, "Failed to generate content from AI. Please check your prompt and API key.")
    /\ UNCHANGED <<keysString, envApiKey, run, wr, fb, pr, inputVars>>

\* generateProductImages settles: the image set, or the catch of handleGenerateImages
ChImagesResponse ==
    /\ cr.at = "images"
    /\ \/ ChCommit([ChStep(cr, "done") EXCEPT !.at = "finished",
                                               !.generatedImages = NumberOfImages],
                   "done", productContent, error)
       \/ ChCommit([ChStep(cr, "error") EXCEPT !.at = "finished", !.caught = ChImagesError],
                   "error", productContent, "Falha ao gerar imagens da IA. Tente novamente mais tarde.")
    /\ UNCHANGED <<keysString, envApiKey, run, wr, fb, pr, inputVars>>

(***************************************************************************)
FirstRun == "r1"

\* the arguments of handleGenerate: an uploaded image (with or without
\* keywords), keywords alone, or a description of the image to synthesise
Submissions ==
    { [image |-> TRUE, title |-> FALSE, imagePrompt |-> FALSE],
      [image |-> TRUE, title |-> TRUE, imagePrompt |-> FALSE],
      [image |-> FALSE, title |-> TRUE, imagePrompt |-> FALSE],
      [image |-> FALSE, title |-> FALSE, imagePrompt |-> TRUE] }

\* the credential store and the environment at start-up
KeyConfigs ==
    { [stored |-> "absent", env |-> FALSE],
      [stored |-> "unparseable", env |-> FALSE],
      [stored |-> "{}", env |-> FALSE],
      [stored |-> "{gemini}", env |-> FALSE],
      [stored |-> "absent", env |-> TRUE] }

Init ==
    /\ generationStep = "idle"
    /\ productContent = Null
    /\ generatedImage = Null
    /\ generatedMockups = <<>>
    /\ error = NullStr
    /\ \E cfg \in KeyConfigs : keysString = cfg.stored /\ envApiKey = cfg.env
    /\ run = [r \in Runs |-> InitRun]
    /\ wr = InitWr
    /\ fb = InitFb
    /\ pr = InitPar
    /\ cr = InitChained
    /\ ui = InitInput
    /\ calc = InitCalc

Next ==
    \/ \E in \in Submissions : Submit(FirstRun, in.image, in.title, in.imagePrompt)
    \/ BaseImageResponse(FirstRun)
    \/ ContentResponse(FirstRun)
    \/ ImageResponse(FirstRun)
    \/ MockupResponse(FirstRun)
    \/ MockupPause(FirstRun)
    \/ Backoff(FirstRun)

Spec == Init /\ [][Next]_vars

\* every call to the API settles, every timer fires
Settles ==
    /\ WF_vars(BaseImageResponse(FirstRun))
    /\ WF_vars(ContentResponse(FirstRun))
    /\ WF_vars(ImageResponse(FirstRun))
    /\ WF_vars(MockupResponse(FirstRun))
    /\ WF_vars(MockupPause(FirstRun))
    /\ WF_vars(Backoff(FirstRun))

SpecSettles == Spec /\ Settles

(***************************************************************************)
(* The three flows of handleGenerate side by side: a behaviour submits     *)
(* once, to one of them.                                                   *)
(***************************************************************************)
NoneStarted == run[FirstRun].at = "idle" /\ pr.at = "idle" /\ cr.at = "idle"

SeqStart ==
    /\ NoneStarted
    /\ \E in \in Submissions : Submit(FirstRun, in.image, in.title, in.imagePrompt)

ParStart ==
    /\ NoneStarted
    /\ \E in \in Submissions : ~in.imagePrompt /\ ParSubmit(in.image, in.title)

ChStart ==
    /\ NoneStarted
    /\ \E in \in Submissions : ~in.imagePrompt /\ ChSubmit(in.image, in.title)

NextVariants ==
    \/ SeqStart
    \/ BaseImageResponse(FirstRun)
    \/ ContentResponse(FirstRun)
    \/ ImageResponse(FirstRun)
    \/ MockupResponse(FirstRun)
    \/ MockupPause(FirstRun)
    \/ Backoff(FirstRun)
    \/ ParStart
    \/ ParContentResponse
    \/ ParImageResponse
    \/ ParBackoff
    \/ ParMockupResponse
    \/ ParMockupBackoff
    \/ ParMockupPause
    \/ ParBannerResponse
    \/ ChStart
    \/ ChContentResponse
    \/ ChImagesResponse

SpecVariants == Init /\ [][NextVariants]_vars

(***************************************************************************)
(* withRetry on its own                                                    *)
(***************************************************************************)
InitRetry ==
    /\ generationStep = "idle"
    /\ productContent = Null
    /\ generatedImage = Null
    /\ generatedMockups = <<>>
    /\ error = NullStr
    /\ keysString = "{gemini}"
    /\ envApiKey = FALSE
    /\ run = [r \in Runs |-> InitRun]
    /\ wr = InitWr
    /\ fb = InitFb
    /\ pr = InitPar
    /\ cr = InitChained
    /\ ui = InitInput
    /\ calc = InitCalc

NextRetry == WrStart \/ WrResolve \/ WrReject \/ WrTimer \/ WrTick

SpecRetry == InitRetry /\ [][NextRetry]_vars

(***************************************************************************)
(* resizeImage (part_002 12-69) in a browser that reads the file and gives *)
(* a 2d context.  Lengths are in pixels; the call site passes 1024 for     *)
(* maxDimension, the model smaller values.                                 *)
(***************************************************************************)
MaxSide == 12
MaxDimensions == {3, 4}

InputFile == [id |-> "input", type |-> "image/png"]

\* canvas.width = x, canvas.height = x: an unsigned long, the fraction is dropped
CanvasLength(num, den) == num \div den

\* everything but calc
restOfCalc == <<appVars, keysString, envApiKey, run, wr, fb, variantVars, ui>>

\* img.onload: resolve(file) for a small image, else the canvas is drawn
ResizeOnload(width, height, maxDimension) ==
    /\ calc.fn = "none"
    /\ calc' =
         IF width <= maxDimension /\ height <= maxDimension
         THEN [fn |-> "resizeImage", at |-> "resolved", width |-> width, height |-> height,
               maxDimension |-> maxDimension, file |-> InputFile,
               newWidth |-> width, newHeight |-> height]
         ELSE [fn |-> "resizeImage", at |-> "toBlob", width |-> width, height |-> height,
               maxDimension |-> maxDimension, file |-> InputFile,
               newWidth |-> IF width > height THEN maxDimension
                            ELSE CanvasLength(width * maxDimension, height),
               newHeight |-> IF width > height
                             THEN CanvasLength(height * maxDimension, width)
                             ELSE maxDimension]
    /\ UNCHANGED restOfCalc

\* the callback of canvas.toBlob: a canvas without pixels gives no blob
ResizeToBlob ==
    /\ calc.fn = "resizeImage" /\ calc.at = "toBlob"
    /\ calc' = IF calc.newWidth = 0 \/ calc.newHeight = 0
               THEN [calc EXCEPT !.at = "rejected"]
               ELSE [calc EXCEPT !.at = "resolved",
                                 !.file = [id |-> "resized", type |-> "image/jpeg"]]
    /\ UNCHANGED restOfCalc

NextResize ==
    \/ \E width, height \in 1..MaxSide : \E maxDimension \in MaxDimensions :
            ResizeOnload(width, height, maxDimension)
    \/ ResizeToBlob

SpecResize == InitRetry /\ [][NextResize]_vars

(***************************************************************************)
(* ProductInput: handleUrlLoad and processImageFile (part_002 96-165).  A  *)
(* URL is the sequence of its parts between slashes, the last one split at *)
(* the question mark.                                                      *)
(***************************************************************************)
MaxLoads == 3

UrlEmpty == <<>>
UrlRelative == << <<"produto.png">> >>
UrlFile == << <<"https:">>, <<"">>, <<"loja.example">>, <<"img">>, <<"produto.png", "v=2">> >>
UrlFolder == << <<"https:">>, <<"">>, <<"loja.example">>, <<"img">>, <<"">> >>
UrlInputs == {UrlEmpty, UrlRelative, UrlFile, UrlFolder}

\* new URL(imageUrl) does not throw
UrlParses(url) == Len(url) >= 3 /\ url[1] = <<"https:">> /\ url[2] = <<"">>

\* imageUrl.substring(imageUrl.lastIndexOf('/') + 1).split('?')[0] || 'image-from-url.png'
UrlFilename(url) ==
    IF url[Len(url)][1] = "" THEN "image-from-url.png" ELSE url[Len(url)][1]

\* what fetch(imageUrl) and response.blob() can come to.  A request that the
\* network fails and one that the cross-origin policy denies both reject with
\* the TypeError of a network error.
FetchFailedMessage == "Failed to fetch"
FetchOutcomes ==
    { [cause |-> "network", rejected |-> TRUE, status |-> "0", type |-> ""],
      [cause |-> "cors", rejected |-> TRUE, status |-> "0", type |-> ""],
      [cause |-> "status", rejected |-> FALSE, status |-> "404", type |-> "text/html"],
      [cause |-> "status", rejected |-> FALSE, status |-> "500", type |-> ""],
      [cause |-> "nonimage", rejected |-> FALSE, status |-> "200", type |-> "text/html"],
      [cause |-> "nonimage", rejected |-> FALSE, status |-> "200", type |-> ""],
      [cause |-> "image", rejected |-> FALSE, status |-> "200", type |-> "image/png"],
      [cause |-> "image", rejected |-> FALSE, status |-> "200", type |-> "image/webp"] }

ResponseOk(status) == status \in {"200"}
\* blob.type.startsWith('image/')
IsImageType(type) == type \in {"image/png", "image/webp", "image/jpeg"}

\* the sizes of the images behind the URLs: small, large, and a thin strip
UrlImageSizes == { <<2, 2>>, <<8, 4>>, <<9, 1>> }
UrlMaxDimension == 4

AlertNoUrl == <<"Por favor, insira uma URL de imagem.">>
AlertBadUrl == <<"Por favor, insira uma URL válida.">>
AlertProcessing ==
    <<"Houve um erro ao processar a imagem. Por favor, tente um arquivo ou URL diferente.">>

\* UrlErrorMessage with one message for every error
UrlErrorMessageUnknown(o) == <<"Erro desconhecido">>

\* the message of the error that reaches handleUrlLoad's catch block
UrlErrorMessage(o) ==
    IF o.rejected THEN <<FetchFailedMessage>>
    ELSE IF ~ResponseOk(o.status) THEN <<"Falha ao buscar imagem (status: ", o.status, ")">>
    ELSE <<"A URL não contém um tipo de imagem válido.">>

\* the alert of handleUrlLoad's catch block
UrlAlert(message) ==
    <<"Houve um erro ao carregar a imagem da URL: ">> \o message \o
    <<". Verifique a URL e as permissões de CORS do servidor da imagem.">>

ShowAlert(u, text) == [u EXCEPT !.alerts = @ \cup {[cause |-> u.cause, text |-> text]}]

\* everything but ui
restOfInput == <<appVars, keysString, envApiKey, run, wr, fb, variantVars, calc>>

\* the user edits the URL field and presses the load button
HandleUrlLoad(url) ==
    /\ ui.at = "idle" /\ ui.loads < MaxLoads
    /\ LET u == [ui EXCEPT !.imageUrl = url, !.loads = @ + 1, !.cause = "none",
                            !.before = [imageFile |-> ui.imageFile,
                                        generated |-> ui.generated]]
       IN  ui' = IF url = UrlEmpty THEN ShowAlert([u EXCEPT !.cause = "nourl"], AlertNoUrl)
                 ELSE IF ~UrlParses(url)
                 THEN ShowAlert([u EXCEPT !.cause = "badurl"], AlertBadUrl)
                 ELSE [u EXCEPT !.at = "fetching", !.isUrlLoading = TRUE]
    /\ UNCHANGED restOfInput

\* fetch and response.blob() settle
UrlFetched ==
    /\ ui.at = "fetching"
    /\ \E o \in FetchOutcomes :
         LET u == [ui EXCEPT !.cause = o.cause]
         IN  IF o.rejected \/ ~ResponseOk(o.status) \/ ~IsImageType(o.type)
             THEN ui' = [ShowAlert(u, UrlAlert(UrlErrorMessage(o)))
                           EXCEPT !.at = "idle", !.isUrlLoading = FALSE]
             ELSE ui' = [u EXCEPT !.at = "resizing",
                                  !.file = Some([id |-> UrlFilename(ui.imageUrl),
                                                 type |-> o.type])]
    /\ UNCHANGED restOfInput

\* processImageFile: resizeImage(file, 1024) loads the image
UrlImageOnload ==
    /\ ui.at = "resizing"
    /\ \E size \in UrlImageSizes : ResizeOnload(size[1], size[2], UrlMaxDimension)

UrlImageToBlob == ui.at = "resizing" /\ ResizeToBlob

\* the file resizeImage resolved with: the file given, or a JPEG of its name
UrlResizedFile ==
    IF calc.file = InputFile THEN ui.file
    ELSE Some([id |-> ui.file[1].id, type |-> calc.file.type])

\* UrlProcessed with a catch that also forgets the image chosen before
UrlProcessedClearsFile ==
    /\ ui.at = "resizing"
    /\ calc.fn = "resizeImage" /\ calc.at \in {"resolved", "rejected"}
    /\ ui' = IF calc.at = "resolved"
             THEN [ui EXCEPT !.at = "idle", !.isUrlLoading = FALSE, !.imageUrl = UrlEmpty,
                             !.imageFile = UrlResizedFile, !.file = Null,
                             !.generated = @ + 1]
             ELSE [ShowAlert([ui EXCEPT !.cause = "resize"], AlertProcessing)
                     EXCEPT !.at = "idle", !.isUrlLoading = FALSE, !.file = Null,
                            !.imageFile = Null]
    /\ calc' = InitCalc
    /\ UNCHANGED <<appVars, keysString, envApiKey, run, wr, fb, variantVars>>

\* processImageFile after await resizeImage, then handleUrlLoad's finally
UrlProcessed ==
    /\ ui.at = "resizing"
    /\ calc.fn = "resizeImage" /\ calc.at \in {"resolved", "rejected"}
    /\ ui' = IF calc.at = "resolved"
             THEN [ui EXCEPT !.at = "idle", !.isUrlLoading = FALSE, !.imageUrl = UrlEmpty,
                             !.imageFile = UrlResizedFile, !.file = Null,
                             !.generated = @ + 1]
             ELSE [ShowAlert([ui EXCEPT !.cause = "resize"], AlertProcessing)
                     EXCEPT !.at = "idle", !.isUrlLoading = FALSE, !.file = Null]
    /\ calc' = InitCalc
    /\ UNCHANGED <<appVars, keysString, envApiKey, run, wr, fb, variantVars>>

NextInput ==
    \/ \E url \in UrlInputs : HandleUrlLoad(url)
    \/ UrlFetched
    \/ UrlImageOnload
    \/ UrlImageToBlob
    \/ UrlProcessed

SpecInput == InitRetry /\ [][NextInput]_vars

(***************************************************************************)
(* From the response text to ProductContent: generateProductContent of     *)
(* geminiService.ts (203-227), of the fence-scanning variant (part_007     *)
(* 133-152) and of the fallback variant (part_010 112-115), and the block  *)
(* of ProductOutput that shows the video script (part_004 480-498).        *)
(***************************************************************************)
\* the properties the model may leave out, members of coupon and videoScript included
OptionalPaths ==
    {"keywords", "variations", "hashtags", "imageTextSuggestions",
     "coupon", "coupon.code", "coupon.phrase",
     "videoScript", "videoScript.title", "videoScript.scenes"}

\* a member is present only inside its object
WellFormedPaths(S) ==
    /\ ({"coupon.code", "coupon.phrase"} \cap S # {}) => "coupon" \in S
    /\ ({"videoScript.title", "videoScript.scenes"} \cap S # {}) => "videoScript" \in S

\* the objects the content model can return
ContentObjects ==
    { [k \in (DOMAIN FullObject \ OptionalPaths) \cup S |-> FullObject[k]] :
        S \in {T \in SUBSET OptionalPaths : WellFormedPaths(T)} }

TextBareOf(obj) == MkText(<<>>, Some(obj), <<>>)
\* the same JSON in a fenced code block with other text around it
TextFencedInProse(obj) ==
    MkText(<<"Aqui", "está", "o", "JSON", ":", Whitespace, "FENCE", "json", Whitespace>>,
           Some(obj),
           <<Whitespace, "FENCE", Whitespace, "Espero", "ter", "ajudado", ".">>)
TextFencedOf(obj) == MkText(<<"FENCE", Whitespace>>, Some(obj), <<Whitespace, "FENCE">>)

ParseInputs ==
    {TextBareOf(o) : o \in ContentObjects}
        \cup {TextFencedInProse(o) : o \in {FullObject, SparseObject}}
        \cup {TextFencedOf(o) : o \in {FullObject, SparseObject}}
        \cup ResponseTexts

Parsed(obj) == [ok |-> TRUE, value |-> obj, err |-> NoError]
ParseFailed(msg) == [ok |-> FALSE, value |-> <<>>, err |-> msg]

\* geminiService.ts 203-235: trim, JSON.parse, the defaults; the two catch blocks
ParseService(text) ==
    IF JSONParse(Trim(text)).ok
    THEN Parsed(EnsureFields(JSONParse(Trim(text)).value))
    ELSE ParseFailed(ContentOuterCatch(FormatError))

\* part_010 112-115: trim, JSON.parse, no defaults
ParseFallback(text) ==
    IF JSONParse(Trim(text)).ok
    THEN Parsed(JSONParse(Trim(text)).value)
    ELSE ParseFailed(FormatError)

\* the words of a text, the object standing as one word
JsonWord == "{JSON}"
Flat(text) ==
    text.pre \o (IF text.obj = Null THEN <<>> ELSE <<JsonWord>>) \o text.post

\* the least index j >= from with ws[j] = w, or 0
IndexOf(ws, w, from) ==
    IF \E j \in from..Len(ws) : ws[j] = w
    THEN CHOOSE j \in from..Len(ws) : ws[j] = w /\ \A q \in from..(j - 1) : ws[q] # w
    ELSE 0

\* the text made of the words ws, the object obj standing where JsonWord is
Unflat(ws, obj) ==
    IF IndexOf(ws, JsonWord, 1) = 0
    THEN MkText(ws, Null, <<>>)
    ELSE MkText(SubSeq(ws, 1, IndexOf(ws, JsonWord, 1) - 1), obj,
                SubSeq(ws, IndexOf(ws, JsonWord, 1) + 1, Len(ws)))

\* responseText.match(/FENCE(?:json)?\s*([\s\S]*?)\s*FENCE/): group 1, or no match
FenceMatch(ws) ==
    LET a == IndexOf(ws, "FENCE", 1)
        b == IF a = 0 THEN 0 ELSE IndexOf(ws, "FENCE", a + 1)
        inner == SubSeq(ws, a + 1, b - 1)
        body == IF inner # <<>> /\ Head(inner) = "json" THEN Tail(inner) ELSE inner
    IN  IF a = 0 \/ b = 0 THEN [matched |-> FALSE, group |-> <<>>]
        ELSE [matched |-> TRUE, group |-> TrimEnd(TrimStart(body))]

\* part_007 133-152: the content of the first fenced block if there is one
ParseFenceScan(text) ==
    LET responseText == Trim(text)
        m == FenceMatch(Flat(responseText))
        jsonString == IF m.matched /\ m.group # <<>>
                      THEN Unflat(m.group, responseText.obj)
                      ELSE responseText
    IN  IF JSONParse(jsonString).ok
        THEN Parsed(OrDefault(OrDefault(JSONParse(jsonString).value, "keywords", "[]"),
                              "variations", "[]"))
        ELSE ParseFailed(ContentOuterCatch(FormatError))

\* content.videoScript && content.videoScript.scenes.length > 0
ShowsVideoScript(content) ==
    IF ~Truthy(content, "videoScript") THEN "hidden"
    ELSE IF "videoScript.scenes" \notin DOMAIN content THEN "TypeError"
    ELSE IF content["videoScript.scenes"] = "[]" THEN "hidden"
    ELSE "shown"

ParseWith(variant, text) ==
    /\ calc.fn = "none"
    /\ calc' = [fn |-> "generateProductContent", variant |-> variant, text |-> text,
                result |-> CASE variant = "service" -> ParseService(text)
                             [] variant = "fenceScan" -> ParseFenceScan(text)
                             [] variant = "fallback" -> ParseFallback(text),
                videoScript |-> "none"]
    /\ UNCHANGED restOfCalc

ServiceParses ==
    /\ calc = InitCalc
    /\ \E text \in ParseInputs : ParseWith("service", text)

FenceScanParses ==
    /\ calc = InitCalc
    /\ \E text \in ParseInputs : ParseWith("fenceScan", text)

FallbackParses ==
    /\ calc = InitCalc
    /\ \E text \in ParseInputs : ParseWith("fallback", text)

\* ProductOutput renders the content returned
RenderOutput ==
    /\ calc.fn = "generateProductContent" /\ calc.result.ok /\ calc.videoScript = "none"
    /\ calc' = [calc EXCEPT !.videoScript = ShowsVideoScript(calc.result.value)]
    /\ UNCHANGED restOfCalc

NextParse == ServiceParses \/ FenceScanParses \/ FallbackParses \/ RenderOutput

SpecParse == InitRetry /\ [][NextParse]_vars

(***************************************************************************)
(* generateProductImages with three buckets of prompts: the text-to-image  *)
(* variant (part_010 133-199) and the image-editing variant (part_009      *)
(* 322-405).  The 15 requests are issued together and settle one by one.   *)
(***************************************************************************)
BucketNames == {"withText", "clean", "modern"}
PromptsPerBucket == 5
ImageRequests == BucketNames \X (1..PromptsPerBucket)

\* which requests fail: none, all, the first of each bucket, a whole bucket,
\* some in the middle and at the end
FailurePatterns ==
    { {}, ImageRequests,
      {<<b, 1>> : b \in BucketNames},
      {<<"withText", k>> : k \in 1..PromptsPerBucket},
      {<<"clean", 2>>, <<"modern", 4>>, <<"modern", 5>>} }

BucketImage(b, k) == <<"data:", "image/jpeg", ";base64,", <<b, k>> >>
NoImage == <<>>
EmptyString == <<"">>

\* generateImage / generateSingleImage: the data URL, or null
GenerateImage(fails, b, k) ==
    IF <<b, k>> \in fails THEN NoImage ELSE BucketImage(b, k)

\* Promise.all over the prompts of a bucket: the results by index
BucketResults(fails, b) ==
    [k \in 1..PromptsPerBucket |-> GenerateImage(fails, b, k)]

\* ReturnBuckets with the failed generations filtered out
ReturnBucketsFiltered(variant, fails) ==
    [b \in BucketNames |-> SelectSeq(BucketResults(fails, b), LAMBDA img : img # NoImage)]

\* return { withText, clean, modern }, nulls kept (part_010) or mapped to '' (part_009)
ReturnBuckets(variant, fails) ==
    [b \in BucketNames |->
        IF variant = "textToImage"
        THEN BucketResults(fails, b)
        ELSE [k \in 1..PromptsPerBucket |->
                IF BucketResults(fails, b)[k] = NoImage THEN EmptyString
                ELSE BucketResults(fails, b)[k]]]

NoBuckets == [b \in BucketNames |-> <<>>]

\* generateProductImages is called; the requests are issued unless a guard
\* returns early or a property of content is read from undefined
GenerateProductImageSet(variant, name, description, originalImage) ==
    /\ calc = InitCalc
    /\ \E fails \in FailurePatterns :
         LET c0 == [fn |-> "generateProductImages", variant |-> variant, at |-> "awaiting",
                    fails |-> fails, dispatched |-> ImageRequests, settled |-> {},
                    result |-> NoBuckets]
             none == [c0 EXCEPT !.fails = {}, !.dispatched = {}]
         IN  calc' =
               IF variant = "textToImage"
               THEN IF ~description THEN [none EXCEPT !.at = "threw"] ELSE c0
               ELSE IF ~name \/ ~originalImage THEN [none EXCEPT !.at = "returned"] ELSE c0
    /\ UNCHANGED restOfCalc

\* one of the requests settles
ImageRequestSettles ==
    /\ calc.fn = "generateProductImages" /\ calc.at = "awaiting"
    /\ \E req \in calc.dispatched \ calc.settled :
         calc' = [calc EXCEPT !.settled = @ \cup {req}]
    /\ UNCHANGED restOfCalc

\* the three Promise.all are fulfilled
ImageSetReturned ==
    /\ calc.fn = "generateProductImages" /\ calc.at = "awaiting"
    /\ calc.settled = calc.dispatched
    /\ calc' = [calc EXCEPT !.at = "returned",
                            !.result = ReturnBuckets(calc.variant, calc.fails)]
    /\ UNCHANGED restOfCalc

NextImageSet ==
    \/ \E variant \in {"textToImage", "imageEdit"} : \E name, description, originalImage \in BOOLEAN :
            GenerateProductImageSet(variant, name, description, originalImage)
    \/ ImageRequestSettles
    \/ ImageSetReturned

SpecImageSet == InitRetry /\ [][NextImageSet]_vars

(***************************************************************************)
(* The fallback generateProductContent on its own                          *)
(***************************************************************************)
NextFallback ==
    \/ \E image, title, url \in BOOLEAN : FbStart(image, title, url)
    \/ FbResponse

SpecFallback == InitRetry /\ [][NextFallback]_vars

(***************************************************************************)
(* Two submissions.  ProductInput's processImageFile calls onGenerate when *)
(* the resize of a chosen file ends, whatever generationStep is by then:   *)
(* the second run can start while the first is in flight or after it.      *)
(***************************************************************************)
SecondRun == "r2"
MaxRequests == 4

\* the files processImageFile submits: onGenerate(resizedFile, title, undefined)
Uploads == {in \in Submissions : in.image /\ ~in.imagePrompt}

RequestsOf(rr) == rr.calls.base + rr.calls.content + rr.calls.image + rr.calls.mockup
\* the requests issued so far by the two runs
TotalRequests == RequestsOf(run[FirstRun]) + RequestsOf(run[SecondRun])

\* the step A, as long as the two runs stay within MaxRequests requests
Within(A) == A /\ TotalRequests' <= MaxRequests

\* onGenerate called by processImageFile: the first time, and again
Upload(r) ==
    /\ r = SecondRun => run[FirstRun].at # "idle"
    /\ \E in \in Uploads : Within(Submit(r, in.image, in.title, in.imagePrompt))

NextOverlap ==
    \/ Upload(FirstRun)
    \/ Upload(SecondRun)
    \/ \E r \in Runs : Within(ContentResponse(r))
    \/ \E r \in Runs : Within(ImageResponse(r))
    \/ \E r \in Runs : Within(MockupResponse(r))
    \/ \E r \in Runs : Within(MockupPause(r))
    \/ \E r \in Runs : Within(Backoff(r))

SpecOverlap == InitRetry /\ [][NextOverlap]_vars

(***************************************************************************)
(* ProductInput in front of handleGenerate (part_002 84-184, 298-308).     *)
(* Every control is guarded by isLoading when the user acts on it; the     *)
(* call of onGenerate in processImageFile comes after the await of         *)
(* resizeImage and looks at nothing.                                       *)
(***************************************************************************)
\* the controls that hand a file to processImageFile
FileSources == {"input", "drop", "url"}

isLoading == generationStep \in {"base_image", "content", "images"}

\* the run a call of onGenerate starts
NextRun == IF run[FirstRun].at = "idle" THEN FirstRun ELSE SecondRun

\* the resized file processImageFile stores and submits
ResizedFile == Some([id |-> "file", type |-> "image/jpeg"])

switchMode(newMode) ==
    /\ ~isLoading
    /\ ui.mode # newMode
    /\ ui' = IF newMode = "generate"
             THEN [ui EXCEPT !.mode = newMode, !.imageFile = Null, !.imageUrl = UrlEmpty]
             ELSE [ui EXCEPT !.mode = newMode]
    /\ UNCHANGED restOfInput

\* the file input: handleFileChange, processImageFile up to its await
handleFileChange ==
    /\ ui.mode = "upload" /\ ~isLoading
    /\ "input" \notin ui.pending
    /\ ui' = [ui EXCEPT !.pending = @ \cup {"input"}]
    /\ UNCHANGED restOfInput

\* the drop zone: onDrop, processImageFile up to its await
onDrop ==
    /\ ui.mode = "upload" /\ ~isLoading
    /\ "drop" \notin ui.pending
    /\ ui' = [ui EXCEPT !.pending = @ \cup {"drop"}]
    /\ UNCHANGED restOfInput

\* the URL button: handleUrlLoad up to its fetch, with a URL that parses
UrlButton ==
    /\ ui.mode = "upload" /\ ~isLoading /\ ~ui.isUrlLoading
    /\ ui' = [ui EXCEPT !.at = "fetching", !.isUrlLoading = TRUE]
    /\ UNCHANGED restOfInput

\* the fetch settles: an image goes to processImageFile, the rest to the catch
UrlResponse ==
    /\ ui.at = "fetching"
    /\ \E image \in BOOLEAN :
          ui' = IF image
                THEN [ui EXCEPT !.at = "resizing", !.pending = @ \cup {"url"}]
                ELSE [ui EXCEPT !.at = "idle", !.isUrlLoading = FALSE]
    /\ UNCHANGED restOfInput

\* ProductInput once the processImageFile of src is over
Processed(src) ==
    IF src = "url"
    THEN [ui EXCEPT !.pending = @ \ {src}, !.at = "idle", !.isUrlLoading = FALSE]
    ELSE [ui EXCEPT !.pending = @ \ {src}]

\* resizeImage resolves: processImageFile after its await, onGenerate included
processImageFile(src) ==
    /\ src \in ui.pending
    /\ ui' = [Processed(src) EXCEPT !.imageFile = ResizedFile, !.imageUrl = UrlEmpty,
                                     !.mode = "upload"]
    /\ Within(SubmitRun(NextRun, TRUE, FALSE, FALSE))
    /\ UNCHANGED calc

\* resizeImage rejects: the catch of processImageFile
processImageFileFails(src) ==
    /\ src \in ui.pending
    /\ ui' = ShowAlert([Processed(src) EXCEPT !.cause = "resize"], AlertProcessing)
    /\ UNCHANGED restOfInput

\* the button of the generate mode, pressed with a prompt typed in
GenerateButton ==
    /\ ui.mode = "generate" /\ ~isLoading
    /\ Within(SubmitRun(NextRun, FALSE, FALSE, TRUE))
    /\ UNCHANGED inputVars

NextIntake ==
    \/ \E newMode \in {"upload", "generate"} : switchMode(newMode)
    \/ handleFileChange
    \/ onDrop
    \/ UrlButton
    \/ UrlResponse
    \/ \E src \in FileSources : processImageFile(src)
    \/ \E src \in FileSources : processImageFileFails(src)
    \/ GenerateButton
    \/ \E r \in Runs : Within(BaseImageResponse(r))
    \/ \E r \in Runs : Within(ContentResponse(r))
    \/ \E r \in Runs : Within(ImageResponse(r))
    \/ \E r \in Runs : Within(MockupResponse(r))
    \/ \E r \in Runs : Within(MockupPause(r))
    \/ \E r \in Runs : Within(Backoff(r))

SpecIntake == InitRetry /\ [][NextIntake]_vars

(***************************************************************************)
(* Properties of one submission                                            *)
(***************************************************************************)
R == run[FirstRun]
Finished == R.at = "finished"
StepsInclude(step) == \E j \in 1..Len(R.steps) : R.steps[j] = step

\* an image was submitted, the content request, the primary image request and
\* every mockup request issued were answered with a usable result at once, and
\* the content carries the description and category the schema requires
C1_AllSucceeded ==
    /\ Finished
    /\ R.image
    /\ R.calls.content = 1 /\ R.content # Null
    /\ R.calls.image = 1 /\ R.newImage # Null
    /\ Len(R.mockups) = R.calls.mockup
    /\ HasString(R.content[1], "description") /\ HasString(R.content[1], "category")

\* C1: a submission with a source image in which content generation, primary
\* image generation and every mockup request succeed takes generationStep
\* through idle, content, images, done and no other value, and ends with
\* productContent holding the returned name and description and with a
\* generatedImage.
C1_ImageRunSteps ==
    C1_AllSucceeded =>
        /\ R.steps = <<"idle", "content", "images", "done">>
        /\ generationStep = "done"
        /\ error = NullStr
        /\ productContent # Null
        /\ productContent[1]["name"] = FullObject["name"]
        /\ productContent[1]["description"] = FullObject["description"]
        /\ generatedImage # Null

C1_Witness ==
    /\ C1_AllSucceeded
    /\ ~R.title
    /\ R.calls.mockup = NumMockupPrompts
    /\ Len(generatedMockups) = NumMockupPrompts

\* C2: a submission with keywords only (no image, no image prompt) never sets
\* generationStep to images and never calls the image capability; when its
\* content generation succeeds the steps are idle, content, done and it ends in
\* done with generatedImage null, generatedMockups empty and no error.
C2_TextOnlyRun ==
    (R.at # "idle" /\ ~R.image /\ ~R.imagePrompt) =>
        /\ ~StepsInclude("images")
        /\ R.calls.base = 0 /\ R.calls.image = 0 /\ R.calls.mockup = 0
        /\ generatedImage = Null
        /\ generatedMockups = <<>>
        /\ (Finished /\ R.content # Null) =>
              /\ R.steps = <<"idle", "content", "done">>
              /\ generationStep = "done"
              /\ error = NullStr
              /\ productContent = R.content

C2_Witness ==
    /\ Finished /\ ~R.image /\ ~R.imagePrompt /\ R.title
    /\ R.content # Null
    /\ generationStep = "done"

\* every attempt of the content call was answered with a block reason
C3_AllBlocked ==
    Finished /\ R.phase = "content" /\ R.seen = {"blocked"}

\* C3: when every attempt of the content call is answered with a policy block,
\* the error generateProductContent throws carries the policy marker and the
\* run ends in error with the policy message, not the generic one.
C3_PolicyBlock ==
    C3_AllBlocked =>
        /\ Includes(R.caught, PolicyMarker)
        /\ generationStep = "error"
        /\ error = MsgPolicy
        /\ error # MsgGeneric

C3_Witness ==
    C3_AllBlocked /\ R.calls.content = retries /\ error = MsgPolicy

\* C4: when the content call completes with a text that is not valid JSON,
\* generateProductContent raises the error whose message contains 'formato
\* inválido', no content is returned, and the run ends in error with the
\* format message.
C4_InvalidFormat ==
    (Finished /\ R.phase = "content" /\ "unparsed" \in R.seen) =>
        /\ Includes(R.caught, <<"formato", "inválido">>)
        /\ R.content = Null /\ productContent = Null
        /\ generationStep = "error"
        /\ error = MsgFormat

\* C5: when every attempt of a capability call fails with a rate-limit error,
\* the error that reaches handleGenerate carries the rate-limit signal and the
\* run ends in error with the rate-limit message.
C5_RateLimit ==
    (Finished /\ R.phase \in {"base", "content", "image"} /\ R.seen = {"ratelimit"}) =>
        /\ IsRateLimitSignal(R.caught)
        /\ generationStep = "error"
        /\ error = MsgRateLimit

\* C6: when every attempt of the content call is rejected for authorization
\* reasons, the run ends in error with the invalid-credential message.
C6_Authorization ==
    (Finished /\ R.phase = "content" /\ R.seen = {"auth"}) =>
        /\ generationStep = "error"
        /\ error = MsgBadKey

\* C7: with no usable key for 'gemini' in the store and none in the
\* environment, a submission ends in error with the credential message and
\* issues no request.
C7_NoKey ==
    (R.at # "idle" /\ ~getApiKeyForService.ok) =>
        /\ Finished
        /\ generationStep = "error"
        /\ error = MsgNoKey
        /\ R.calls = NoCalls

\* the primary image call of the run was made and gave no image
PrimaryImageFailed ==
    Finished /\ R.calls.image > 0 /\ R.newImage = Null

\* C12: in a run whose primary image call yields no image, no mockup request
\* is ever issued: every mockup request of a run is preceded by a primary
\* image of that run, and a run that ended on a failed primary image call has
\* issued no request after it.
C12_NoMockupsWithoutPrimary ==
    /\ R.newImage = Null => R.calls.mockup = 0
    /\ R.calls.mockup > 0 => (R.calls.image > 0 /\ generatedImage = R.newImage)
    /\ PrimaryImageFailed => (R.phase = "image" /\ R.calls.mockup = 0)

C12_Witness ==
    /\ PrimaryImageFailed
    /\ R.seen = {"noimage"}
    /\ R.calls.mockup = 0

\* C13: when content generation succeeded and the primary image call yields
\* no image, the run ends in done with productContent available,
\* generatedImage null, generatedMockups empty and no error.
C13_PartialSuccess ==
    (PrimaryImageFailed /\ R.content # Null) =>
        /\ generationStep = "done"
        /\ productContent = R.content
        /\ generatedImage = Null
        /\ generatedMockups = <<>>
        /\ error = NullStr

\* the prompts whose request gave no image, in a run whose mockup loop ended
MockupSlotsFailed ==
    {k \in 1..NumMockupPrompts :
        \A j \in 1..Len(R.mockups) : R.mockups[j] # DataUrl("image/png", MockupData[k])}

\* C14: when exactly one of the 4 mockup requests fails, the result
\* generateProductMockups returns has 4 slots, the failing slot empty at its
\* own position and the 3 others holding the images of their prompts.
C14_FourSlots ==
    (Finished /\ generationStep = "done" /\ R.calls.mockup >= NumMockupPrompts
              /\ Cardinality(MockupSlotsFailed) = 1) =>
        /\ Len(generatedMockups) = 4
        /\ \A k \in 1..4 :
              IF k \in MockupSlotsFailed
              THEN generatedMockups[k] = Null
              ELSE generatedMockups[k] = DataUrl("image/png", MockupData[k])

\* the prompts for which a request was issued
PromptsDispatched == {d.prompt : d \in R.dispatched}

\* handleGenerate is inside generateProductMockups, or ended there
InMockups == R.phase = "mockup"

\* C15: every prompt of the mockup loop is attempted whatever became of the
\* others: while the loop runs, a request was issued for each prompt up to the
\* current one; when it ended, a request was issued for each of the 4
\* prompts, each prompt has an outcome, and the image of every prompt that
\* returned one is in the result.
C15_AllPromptsAttempted ==
    (InMockups /\ DataUrlMatches(R.newImage)) =>
        /\ PromptsDispatched = 1..R.k
        /\ Finished =>
              /\ PromptsDispatched = 1..NumMockupPrompts
              /\ Len(R.slots) = NumMockupPrompts
              /\ \A k \in 1..NumMockupPrompts :
                    R.slots[k] = "image" =>
                        \E j \in 1..Len(generatedMockups) :
                            generatedMockups[j] = DataUrl("image/png", MockupData[k])

C15_Witness ==
    /\ InMockups /\ Finished
    /\ R.slots = <<"threw", "none", "image", "image">>
    /\ Len(generatedMockups) = 2

\* C16: the failure of a mockup prompt (all its attempts rejected, a blocked
\* response, a response without image) never leaves generateProductMockups as
\* an exception and never sets generationStep to error: the run ends in done
\* with the mockups that were produced.
C16_SlotFailuresAbsorbed ==
    InMockups =>
        /\ generationStep # "error"
        /\ error = NullStr
        /\ R.caught = NoError
        /\ Finished => (generationStep = "done" /\ generatedMockups = R.mockups)

C16_Witness ==
    /\ InMockups /\ Finished
    /\ R.slots = <<"threw", "threw", "threw", "threw">>
    /\ R.calls.mockup = retries * NumMockupPrompts
    /\ generationStep = "done"

\* C17 as stated: the mockup requests run concurrently, so while the request
\* of a prompt is in flight the requests of all the prompts have been issued.
C17_ConcurrentRequests ==
    (InMockups /\ R.at = "request") => PromptsDispatched = 1..NumMockupPrompts

\* C17, amended: the mockup requests are issued one at a time and in prompt
\* order, the request of a prompt only after the iteration of the prompt
\* before it has ended (its retries and its pause included), and none of them
\* before the primary image call has returned an image.
C17_SerialRequests ==
    /\ R.dispatched # {} => (InMockups /\ R.newImage # Null)
    /\ InMockups =>
          /\ PromptsDispatched \in {{}, 1..R.k}
          /\ Len(R.slots) = IF R.at \in {"request", "backoff"} THEN R.k - 1 ELSE R.k

C17_Witness ==
    /\ InMockups /\ R.at = "request"
    /\ R.k = 3
    /\ R.slots = <<"threw", "image">>
    /\ PromptsDispatched = 1..3

\* C18: no mockup request is issued before the primary image call of the run
\* has returned an image, and the base image of every mockup request is that
\* primary image.
C18_PrimaryBeforeMockups ==
    /\ R.calls.mockup > 0 => R.dispatched # {}
    /\ \A d \in R.dispatched :
          /\ R.newImage # Null
          /\ d.base = R.newImage
          /\ d.base = generatedImage
          /\ R.calls.image > 0

C18_Witness ==
    /\ InMockups /\ R.at = "request" /\ R.k = NumMockupPrompts
    /\ R.dispatched = {[prompt |-> q, base |-> DataUrl("image/png", "primary")] :
                         q \in 1..NumMockupPrompts}

WrInvocations == Len(wr.outcomes) + (IF wr.at = "awaiting" THEN 1 ELSE 0)

\* C8: withRetry(fn, 3, 1000) invokes fn at most 3 times; it returns the value
\* of the first invocation that succeeds and invokes fn no more after it; when
\* all 3 invocations fail it throws the error of the last one and returns no
\* value.
C8_RetryBound ==
    /\ WrInvocations <= 3
    /\ \A j \in 1..Len(wr.outcomes) :
         wr.outcomes[j].ok =>
            /\ j = Len(wr.outcomes)
            /\ wr.at = "returned"
            /\ wr.result = wr.outcomes[j].value
    /\ wr.at = "returned" => wr.outcomes[Len(wr.outcomes)].ok /\ wr.thrown = NoError
    /\ wr.at = "thrown" =>
            /\ Len(wr.outcomes) = 3
            /\ \A j \in 1..3 : ~wr.outcomes[j].ok
            /\ wr.thrown = wr.outcomes[3].err
            /\ wr.result = ""

C8_Witness ==
    /\ wr.at = "thrown"
    /\ wr.outcomes[1].err # wr.outcomes[3].err
    /\ wr.outcomes[2].err # wr.outcomes[3].err

\* C9 as stated: the failures are followed by delays of 1 s, 2 s and 4 s, the
\* third failure included, and the final re-throw waits for its delay.
C9_DelayAfterEveryFailure ==
    wr.at = "thrown" =>
        /\ wr.delays = <<1000, 2000, 4000>>
        /\ wr.settledAt >= wr.failedAt + 4000

\* C9, amended: the first failure is followed by a delay of 1000 ms and the
\* second by one of 2000 ms, and the next invocation never happens before that
\* delay has elapsed; the third failure is followed by no delay: its error is
\* re-thrown at once.
C9_BackoffDelays ==
    /\ Len(wr.delays) <= 2
    /\ \A j \in 1..Len(wr.delays) : wr.delays[j] = 1000 * (2 ^ (j - 1))
    /\ wr.at = "sleeping" => Len(wr.delays) = Len(wr.outcomes)
    /\ (wr.at \in {"awaiting", "returned"} /\ wr.i > 0) =>
            /\ Len(wr.delays) = wr.i
            /\ wr.calledAt >= wr.failedAt + wr.delays[wr.i]
    /\ wr.at = "thrown" =>
            /\ wr.delays = <<1000, 2000>>
            /\ wr.settledAt = wr.failedAt

C9_Witness ==
    /\ wr.at = "thrown"
    /\ wr.delays = <<1000, 2000>>
    /\ wr.settledAt = wr.failedAt
    /\ wr.settledAt >= 3000

(***************************************************************************)
(* Properties of the model fallback                                        *)
(***************************************************************************)
\* C10: the models are called in list order; the second is called only after
\* the first failed (by a rejection or by a body that does not parse) and never
\* after it succeeded; when the first fails and the second returns a body that
\* parses, the parsed body is returned and no error is thrown; the error is
\* thrown only when every model of the list failed.
C10_FallbackOrder ==
    /\ fb.called = SubSeq(modelsToTry, 1, Len(fb.called))
    /\ Len(fb.called) = 2 => (Len(fb.outcomes) >= 1 /\ ~fb.outcomes[1].ok)
    /\ (Len(fb.outcomes) >= 1 /\ fb.outcomes[1].ok) =>
            /\ fb.at = "returned" /\ Len(fb.called) = 1
            /\ fb.result = fb.outcomes[1].value
    /\ (Len(fb.outcomes) = 2 /\ ~fb.outcomes[1].ok /\ fb.outcomes[2].ok) =>
            /\ fb.at = "returned"
            /\ fb.result = fb.outcomes[2].value /\ fb.result # Null
            /\ fb.thrown = NoError
    /\ fb.at = "thrown" =>
            /\ Len(fb.outcomes) = 2
            /\ \A j \in 1..2 : ~fb.outcomes[j].ok

C10_Witness ==
    /\ fb.at = "returned"
    /\ fb.called = modelsToTry
    /\ ~fb.outcomes[1].ok /\ fb.outcomes[2].ok
    /\ fb.result = Some(FullObject)

\* C11: when every model of the list failed, generateProductContent throws one
\* error, after each model was called exactly once and in list order; the
\* message states the number of models tried and contains the message of the
\* last underlying error; no content is returned, and no error is thrown in
\* any other case.
C11_AggregatedError ==
    /\ fb.at # "thrown" => fb.thrown = NoError
    /\ fb.at = "thrown" =>
            /\ fb.called = modelsToTry
            /\ Len(fb.outcomes) = Len(modelsToTry)
            /\ \A j \in 1..Len(fb.outcomes) : ~fb.outcomes[j].ok
            /\ Includes(fb.thrown, <<"tentar", "2", "modelos">>)
            /\ Includes(fb.thrown, fb.outcomes[Len(fb.outcomes)].err)
            /\ fb.result = Null

C11_Witness ==
    /\ fb.at = "thrown"
    /\ fb.outcomes[1].err = ErrRateLimitCode
    /\ fb.outcomes[2].err = JsonSyntaxError
    /\ Includes(fb.thrown, JsonSyntaxError)

(***************************************************************************)
(* Properties of two submissions                                           *)
(***************************************************************************)
\* the run submitted last
Latest == IF run[SecondRun].at # "idle" THEN run[SecondRun] ELSE run[FirstRun]

\* C20: a submission resets productContent, generatedImage, generatedMockups
\* and error before its first request, and from then until the run writes its
\* own content, image, mockups or error, none of a previous run is visible.
C20_NoStaleResults ==
    Latest.at # "idle" =>
        /\ Latest.content = Null => productContent = Null
        /\ Latest.newImage = Null => generatedImage = Null
        /\ ~(Latest.at = "finished" /\ Latest.phase = "mockup") => generatedMockups = <<>>
        /\ Latest.caught = NoError => error = NullStr

(***************************************************************************)
(* Properties of the three flows of handleGenerate                         *)
(***************************************************************************)
HasStep(steps, step) == \E j \in 1..Len(steps) : steps[j] = step

\* sequential flow: images only with an image to process and the content set
SeqImagesAfterContent ==
    StepsInclude("images") =>
        /\ R.imageToProcess # "null"
        /\ R.content # Null
        /\ R.calls.content > 0

\* parallel flow: images only with a source image and a fulfilled content call
ParImagesAfterContent ==
    HasStep(pr.steps, "images") =>
        /\ pr.image
        /\ pr.c.at = "fulfilled"
        /\ productContent = pr.c.value

\* chained flow: images only after the content was parsed and set
ChImagesAfterContent ==
    HasStep(cr.steps, "images") => (productContent # Null /\ cr.imageCalls = 1)

\* C21 as stated: in every flow of handleGenerate, generationStep takes the
\* value images only in a run that has a usable source image and whose content
\* generation has succeeded; a run without a source image never enters images.
C21_ImagesOnlyWithSource ==
    /\ SeqImagesAfterContent
    /\ ParImagesAfterContent
    /\ ChImagesAfterContent
    /\ HasStep(cr.steps, "images") => cr.image

\* C21, amended: in the sequential and the parallel flow generationStep takes
\* the value images only in a run that has a usable source image and whose
\* content generation has succeeded; in the chained flow it takes that value
\* in every run whose content generation has succeeded, with or without a
\* source image, and in no other run.
C21_ImagesAfterContent ==
    /\ SeqImagesAfterContent
    /\ ParImagesAfterContent
    /\ ChImagesAfterContent
    /\ (cr.at \in {"images", "finished"} /\ productContent # Null) => HasStep(cr.steps, "images")

C21_Witness ==
    /\ cr.at = "images"
    /\ ~cr.image
    /\ generationStep = "images"
    /\ productContent # Null

(***************************************************************************)
(* Properties of a superseded run                                          *)
(***************************************************************************)
Old == run[FirstRun]
New == run[SecondRun]

\* the newer run has started and the older one has not ended
Superseded == New.at # "idle" /\ Old.at \notin {"idle", "finished"}

\* C22: a new submission leaves the run it supersedes as it is, requests in
\* flight included, and the writes of the superseded run are not guarded: each
\* result it obtains after the newer run has started (content, primary image,
\* mockups, step, error) is written to the shared state.
C22_SupersededRunWrites ==
    [][ /\ (New.at = "idle" /\ run'[SecondRun].at # "idle") =>
              run'[FirstRun] = Old
        /\ (Superseded /\ run'[FirstRun] # Old) =>
              /\ run'[FirstRun].content # Old.content =>
                    productContent' = run'[FirstRun].content
              /\ run'[FirstRun].newImage # Old.newImage =>
                    generatedImage' = run'[FirstRun].newImage
              /\ Len(run'[FirstRun].steps) > Len(Old.steps) =>
                    generationStep' = run'[FirstRun].steps[Len(run'[FirstRun].steps)]
              /\ run'[FirstRun].caught # Old.caught =>
                    (generationStep' = "error" /\ error' # NullStr)
              /\ (run'[FirstRun].at = "finished" /\ run'[FirstRun].phase = "mockup") =>
                    generatedMockups' = run'[FirstRun].mockups
      ]_vars

\* the content of the superseded run is on display while the newer run, which
\* reset it, still waits for its own
C22_Witness ==
    /\ New.at = "request" /\ New.phase = "content" /\ New.content = Null
    /\ Old.content # Null
    /\ productContent = Old.content
    /\ Old.at = "request"

(***************************************************************************)
(* Properties of resizeImage                                               *)
(***************************************************************************)
Resized == calc.fn = "resizeImage" /\ calc.at # "toBlob"
Larger(a, b) == IF a > b THEN a ELSE b

\* C23: for every image with width > maxDimension or height > maxDimension
\* resizeImage produces a file whose larger side is maxDimension and whose
\* sides are in the proportion of the image's, to the pixel (a square stays a
\* square); for every image with both sides <= maxDimension it resolves with
\* the very file it was given.
C23_ResizeDimensions ==
    Resized =>
        IF calc.width > calc.maxDimension \/ calc.height > calc.maxDimension
        THEN /\ calc.at = "resolved"
             /\ calc.file.id = "resized"
             /\ Larger(calc.newWidth, calc.newHeight) = calc.maxDimension
             /\ calc.newWidth * calc.height <= calc.newHeight * calc.width + calc.width
             /\ calc.newHeight * calc.width <= calc.newWidth * calc.height + calc.height
             /\ calc.width = calc.height => calc.newWidth = calc.newHeight
        ELSE /\ calc.at = "resolved"
             /\ calc.file = InputFile
             /\ calc.newWidth = calc.width /\ calc.newHeight = calc.height

(***************************************************************************)
(* Properties of handleUrlLoad                                             *)
(***************************************************************************)
\* the failure classes of a URL load
UrlFailureClasses == {"network", "nonimage", "cors"}

\* what the user can tell apart: a request that did not complete, a response
\* with a failure status, a response that is not an image
Reported(cause) == IF cause \in {"network", "cors"} THEN "fetch" ELSE cause

CorsHint == ". Verifique a URL e as permissões de CORS do servidor da imagem."

\* C24 as stated: a network failure, a response whose content type is not an
\* image and a cross-origin denial are each shown with a message that
\* distinguishes it from the other two.
C24_ThreeDistinctErrors ==
    \A a, b \in ui.alerts :
        (a.cause \in UrlFailureClasses /\ b.cause \in UrlFailureClasses /\ a.cause # b.cause)
            => a.text # b.text

\* C24, amended: handleUrlLoad shows three distinct messages, for a request
\* that did not complete (network failure and cross-origin denial alike, with
\* the message of the rejected fetch), for a response with a failure status
\* (with the status), and for a response whose content type is not an image;
\* each of them carries the same advice to check the URL and the CORS
\* permissions of the server.
C24_DistinctErrors ==
    \A a, b \in ui.alerts :
        (a.cause \in {"network", "cors", "status", "nonimage"}
           /\ b.cause \in {"network", "cors", "status", "nonimage"}) =>
            /\ Reported(a.cause) # Reported(b.cause) => a.text # b.text
            /\ (a.cause \in {"network", "cors"} /\ b.cause \in {"network", "cors"})
                  => a.text = b.text
            /\ a.text[Len(a.text)] = CorsHint

C24_Witness ==
    /\ ui.at = "idle"
    /\ {a.cause : a \in ui.alerts} = {"network", "cors", "nonimage"}

(***************************************************************************)
(* Properties of the parsed content                                        *)
(***************************************************************************)
ContentReturned == calc.fn = "generateProductContent" /\ calc.result.ok
IsSequence(v) == v \in {"[..]", "[]"}

\* every sequence is there, and coupon and videoScript with their members
FieldsComplete(content) ==
    /\ \A k \in {"keywords", "variations", "hashtags", "imageTextSuggestions"} :
            k \in DOMAIN content /\ IsSequence(content[k])
    /\ {"coupon", "coupon.code", "coupon.phrase"} \subseteq DOMAIN content
    /\ {"videoScript", "videoScript.title", "videoScript.scenes"} \subseteq DOMAIN content
    /\ IsSequence(content["videoScript.scenes"])

\* C25: for every JSON object the content model can return (any subset of the
\* optional fields, nested objects with any subset of their members) the
\* ProductContent returned has keywords, variations, hashtags and
\* imageTextSuggestions as sequences, coupon with code and phrase, and
\* videoScript with title and a scenes sequence, so that the display reads
\* videoScript.scenes and coupon.code without a null check.
C25_FieldsPresent ==
    (ContentReturned /\ calc.variant = "service") =>
        /\ FieldsComplete(calc.result.value)
        /\ calc.videoScript # "TypeError"

\* the response text carries the JSON object bare, or in a fenced code block
\* with or without other text around it
BareText == calc.text.obj # Null /\ calc.text.pre = <<>> /\ calc.text.post = <<>>
FencedText ==
    /\ calc.text.obj # Null
    /\ IndexOf(calc.text.pre, "FENCE", 1) > 0
    /\ IndexOf(calc.text.post, "FENCE", 1) > 0

\* C26: generateProductContent of services/geminiService.ts returns an object
\* equivalent to the model's JSON both when the response text is a bare JSON
\* object and when the same JSON is wrapped in a fenced code block surrounded
\* by other text; the fenced form is never rejected as an invalid format.
C26_FencedAccepted ==
    (calc.fn = "generateProductContent" /\ calc.variant = "service"
       /\ (BareText \/ FencedText)) =>
        /\ calc.result.ok
        /\ \A k \in DOMAIN calc.text.obj[1] :
                k \in DOMAIN calc.result.value
                /\ (calc.text.obj[1][k] \notin Falsy
                      => calc.result.value[k] = calc.text.obj[1][k])

\* the fence-scanning variant meets the statement of C26
FenceScanAccepted ==
    (calc.fn = "generateProductContent" /\ calc.variant = "fenceScan"
       /\ (BareText \/ FencedText)) =>
        /\ calc.result.ok
        /\ \A k \in DOMAIN calc.text.obj[1] :
                k \in DOMAIN calc.result.value
                /\ (calc.text.obj[1][k] \notin Falsy
                      => calc.result.value[k] = calc.text.obj[1][k])

(***************************************************************************)
(* Properties of the base image stage                                      *)
(***************************************************************************)
PromptRun == R.at # "idle" /\ ~R.image /\ R.imagePrompt
PromptRunSteps == <<"idle", "base_image", "content", "images", "done">>
IsPrefix(a, b) == Len(a) <= Len(b) /\ a = SubSeq(b, 1, Len(a))

\* C27: in a submission with no image but an image prompt generationStep goes
\* idle, base_image, content (then images, done), or to error from any of
\* them; the content capability is not called before generateImageFromText
\* has returned a base image, and if the base image generation fails the run
\* ends in error with no call of the content capability.
C27_BaseImageBeforeContent ==
    PromptRun =>
        /\ \/ IsPrefix(R.steps, PromptRunSteps)
           \/ /\ R.steps[Len(R.steps)] = "error"
              /\ IsPrefix(SubSeq(R.steps, 1, Len(R.steps) - 1), PromptRunSteps)
        /\ R.steps[Len(R.steps)] = generationStep
        /\ (R.calls.content > 0 \/ StepsInclude("content")) =>
              (R.imageToProcess = "generated" /\ R.calls.base > 0)
        /\ (Finished /\ R.imageToProcess = "null") =>
              /\ generationStep = "error"
              /\ error # NullStr
              /\ R.calls.content = 0
              /\ productContent = Null

\* every attempt of the base image call failed
C27_Witness ==
    /\ PromptRun /\ Finished
    /\ R.calls.base = retries
    /\ R.imageToProcess = "null"
    /\ R.steps = <<"idle", "base_image", "error">>

(***************************************************************************)
(* Properties of the bucketed generateProductImages                        *)
(***************************************************************************)
ImageSetCall == calc.fn = "generateProductImages"
Placeholder == IF calc.variant = "textToImage" THEN NoImage ELSE EmptyString

\* C28: in the bucketed generateProductImages each of the buckets withText,
\* clean and modern has exactly 5 entries, one per dispatched prompt and at
\* the prompt's index, whatever subset of the 15 requests fails and in
\* whatever order they complete; a failed request contributes the placeholder
\* (null, or the empty string) at its own index.
C28_BucketsKeepPositions ==
    ImageSetCall =>
        /\ calc.dispatched \in {ImageRequests, {}}
        /\ calc.at = "awaiting" => calc.dispatched = ImageRequests
        /\ (calc.at = "returned" /\ calc.dispatched # {}) =>
              \A b \in BucketNames :
                  /\ Len(calc.result[b]) = PromptsPerBucket
                  /\ \A k \in 1..PromptsPerBucket :
                        calc.result[b][k] =
                            IF <<b, k>> \in calc.fails THEN Placeholder ELSE BucketImage(b, k)
        /\ calc.dispatched = {} => \A b \in BucketNames : calc.result[b] = <<>>

\* some requests failed, in the middle and at the end of a bucket
C28_Witness ==
    /\ ImageSetCall /\ calc.at = "returned"
    /\ calc.fails = {<<"clean", 2>>, <<"modern", 4>>, <<"modern", 5>>}
    /\ calc.result["modern"][5] = Placeholder
    /\ calc.result["clean"][3] = BucketImage("clean", 3)

(***************************************************************************)
(* Properties of the coupon banner task                                    *)
(***************************************************************************)
BannerRequested == pr.b # "none"

\* C29: a request for a coupon banner is issued only in runs whose parsed
\* content has a non-empty coupon code and a non-empty coupon phrase (and
\* whose primary image exists); for content without a coupon no banner
\* request is made.
C29_BannerOnlyWithCoupon ==
    /\ BannerRequested =>
          /\ pr.c.at = "fulfilled"
          /\ productContent = pr.c.value
          /\ productContent[1]["coupon.code"] # ""
          /\ productContent[1]["coupon.phrase"] # ""
          /\ generatedImage # Null
    /\ (pr.c.at = "fulfilled" /\ pr.c.value[1]["coupon.code"] = "") => ~BannerRequested

\* the banner of a run with a coupon arrived and the run is done
C29_Witness ==
    /\ pr.b = "image"
    /\ generationStep = "done"
    /\ productContent[1]["coupon.code"] = FullObject["coupon.code"]

(***************************************************************************)
(* Properties of the state shown                                           *)
(***************************************************************************)
\* C30: in every reachable state, those reached by overlapping submissions
\* included, generationStep = done implies that productContent is not null
\* and error is null, and generationStep = error implies that error is not
\* null.
C30_StepMatchesState ==
    /\ generationStep = "done" => (productContent # Null /\ error = NullStr)
    /\ generationStep = "error" => error # NullStr

(***************************************************************************)
(* Termination of a run                                                    *)
(***************************************************************************)
Terminal == generationStep \in {"done", "error"}

InFlight(r) == run[r].at \notin {"idle", "finished"}

\* C32: for every interleaving of file selection, drag-and-drop, URL loading
\* and the generate button, at most one run is in flight at any time:
\* ProductInput never calls onGenerate while a previous run is in flight.
C32_OneRunInFlight == ~(InFlight(FirstRun) /\ InFlight(SecondRun))

(***************************************************************************)
(* Properties of the join of the parallel flow                             *)
(***************************************************************************)
ParRejected == pr.c.at = "rejected" \/ pr.p.at = "rejected"

\* C33: in the parallel flow the content call and the primary image call
\* are joined fail-fast: once either call has rejected, the run has ended
\* in error with productContent = null and generatedImage = null, whatever
\* the other call did or does, and the run never showed the images step.
C33_JoinFailsFast ==
    ParRejected =>
        /\ pr.at = "finished" /\ generationStep = "error"
        /\ productContent = Null /\ generatedImage = Null
        /\ error = MessageText(pr.caught)
        /\ ~HasStep(pr.steps, "images")

\* the primary image call rejected in a run whose content call succeeded
C33_Witness ==
    /\ pr.c.at = "fulfilled" /\ pr.p.at = "rejected"
    /\ generationStep = "error" /\ productContent = Null

(***************************************************************************)
(* Properties of the end of handleUrlLoad                                  *)
(***************************************************************************)
UrlLoadOver == ui.at = "idle" /\ ui.loads > 0
UrlLoadFailed == UrlLoadOver /\ ui.cause # "image"

\* C34: once handleUrlLoad is over, on every path (no or invalid URL,
\* fetch exception, non-OK status, non-image content, resize failure,
\* success), isUrlLoading is false again; and on every failing path
\* onGenerate was not called and imageFile has the value it had before.
C34_UrlLoadFrame ==
    /\ UrlLoadOver => ~ui.isUrlLoading
    /\ UrlLoadFailed =>
          /\ ui.generated = ui.before.generated
          /\ ui.imageFile = ui.before.imageFile

\* a load that failed in resizeImage after a load that succeeded, and
\* every other failing path taken
C34_Witness ==
    /\ UrlLoadFailed /\ ui.cause = "resize"
    /\ ui.imageFile # Null /\ ui.generated = 1
    /\ \E a \in ui.alerts : a.cause \in {"network", "cors", "status", "nonimage"}

====
